---- MODULE Spec2Model ----
(***************************************************************************)
(* Verification model of the allmaps rendering core.                       *)
(*                                                                         *)
(*  - Tile cache and CacheableWorkerImageDataTile.fetch                    *)
(*      (packages/render/src/shared/transform.ts, README TileCache API)    *)
(*  - WebGL2WarpedMap texture throttle and the Leaflet WarpedMapLayer      *)
(*      (packages/render/src/maps/WebGL2WarpedMap.ts, unnamed/part_001)    *)
(*  - WarpedMapList z-order and the WarpedMap life cycle                   *)
(*      (README WarpedMapList API, spec.md 4.2 and 4.8)                    *)
(*                                                                         *)
(* Each subsystem has its own specification; the variables of the other    *)
(* subsystems stay at their initial values in it.                          *)
(***************************************************************************)
EXTENDS Integers, Sequences, FiniteSets, TLC

(***************************************************************************)
(* Bounds of the model                                                     *)
(***************************************************************************)
\* number of distinct tile URLs that are requested
NumUrls == 2
\* number of CacheableTile objects that are ever constructed
MaxTiles == 2

\* the clock advances in steps of TickMs milliseconds, up to MaxTime
TickMs == 50
MaxTime == 400

\* number of distinct map IDs, and of WarpedMap objects that are ever constructed
NumMapIds == 2
MaxMaps == 2

TileUrls == 1..NumUrls
TileIds == 1..MaxTiles
\* Map.get() of a missing key
NoTile == 0
NoUrl == NoTile
\* JavaScript's undefined, for a time or a timer id
Undefined == 0 - 1
MapIds == 1..NumMapIds
WarpedMaps == 1..MaxMaps
\* warpedMapsById.get() of a missing key
NoMap == NoTile

(***************************************************************************)
(* State                                                                   *)
(***************************************************************************)
VARIABLES
  \* ---- CacheableWorkerImageDataTile objects, by TileIds ----
  tileUrl,          \* this.tileUrl, NoUrl while the object is not constructed
  pc,               \* position of fetch(): "idle" | "fetchUrl" | "blob" | "worker" | "done"
  aborted,          \* this.abortController.signal.aborted
  data,             \* TRUE when this.data is set
  resolved,         \* TRUE when the promise returned by fetch() has resolved
  tileFetched,      \* number of TILEFETCHED events dispatched by the tile
  tileFetchError,   \* number of TILEFETCHERROR events dispatched by the tile
  failure,          \* how the fetch failed: "none" | "network" | "decode"
  \* ---- TileCache ----
  tilesByTileUrl,   \* the cache's map tileUrl -> CacheableTile (NoTile: absent)
  tilesFetching,    \* the entries the cache counts as in flight (tilesFetchingCount)
  removable,        \* entries marked removable after TILEFETCHERROR
  waiting,          \* TRUE while a caller awaits allRequestedTilesLoaded()
  requests,         \* per URL, the requestFetchableTiles calls that named it since
                    \* its entry was created: 0, 1 or "2 or more" (2)
  \* ---- throttledUpdateTextures of a WebGL2WarpedMap (lodash throttle) ----
  now,              \* Date.now(), in milliseconds
  lastArgs,         \* TRUE while a call waits for the trailing edge (lastArgs is set)
  lastCallTime,     \* time of the last call of the throttled function, or Undefined
  lastInvokeTime,   \* time of the last invocation of updateTextures
  timerId,          \* the time the pending timer is due, or Undefined
  invocations,      \* number of invocations of updateTextures
  pendingCalls,     \* calls since the last invocation: 0, 1 or "2 or more" (2)
  lastServed,       \* pendingCalls as the last invocation found it
  invokeSaw,        \* CachedTilesByTileUrl as the last invocation read it
  \* ---- WebGL2WarpedMap ----
  CachedTilesByTileUrl,  \* the URLs of the cached tiles of the map
  packedTiles,      \* the tiles held by the packed tiles textures
  texturesUpdated,  \* TRUE when the last invocation dispatched TEXTURESUPDATED
  \* ---- WarpedMapLayer (Leaflet) and the options its renderer holds ----
  hasMap,           \* this._map is set (onAdd was called)
  listening,        \* the layer listens to the map's move events
  mapOpacity,       \* TRUE when the map has an opacity of its own
  mapRemoveBackground, \* TRUE when the map has remove-background options
  view,             \* the view of the Leaflet map (its centre), 0 or 1
  rendered,         \* what the last render drew: a record, or <<>> before any render
  \* ---- WarpedMapList ----
  warpedMapsById,   \* mapId -> WarpedMap object (NoMap: not in the list)
  zOrder,           \* the mapIds of the list by z-index, from back to front
  addRejected,      \* TRUE when the last add returned an Error
  lastOp,           \* the last step, when a z-order operation: "frontToFront" (the front
                    \* map alone was brought to front) | "backToBack" | "other"; else "none"
  orderKept,        \* TRUE when the last z-order operation left the z-order as it was
  \* ---- WarpedMap objects, by WarpedMaps ----
  mapState,         \* "none" (not constructed) | "created" | "imageInfoLoading" |
                    \* "ready" | "changing" | "removed"
  mapIdOf,          \* this.mapId, NoMap while the object is not constructed
  hasImageInfo,     \* hasImageInfo(): the image info was loaded and parsed
  imageInfoError,   \* TRUE when the failure of loadImageInfo() was surfaced
  everReady,        \* TRUE once the map has been ready
  \* ---- Viewport objects and their callers ----
  viewport,         \* the Viewport a caller holds (the first one created), or NoViewport
  viewportArgs,     \* the arguments of the factory call that created it
  factoryResult,    \* how the last factory call ended: "none" | "viewport" |
                    \* "noConvexHullError" | "typeError" | "nanViewport"
  bufferedRectangle,\* result of the last getProjectedGeoBufferedRectangle(), or <<>>
  layerViewport,    \* the Viewport object of the WarpedMapLayer, made in initialize()
  \* ---- tile selection of the base renderer, for one warped map ----
  image,            \* the parsed image info of the map's resource, or NoImage
  resourceBufferedViewportRing,  \* the buffered viewport in resource coordinates
  resourcePerViewportPixel,      \* resource pixels per viewport pixel of the render
  tileZoomLevel,    \* scaleFactor of the zoom level chosen, NoLevel when none is
  selectionError,   \* "none" | "NoZoomLevelError"
  fetchableTiles,   \* the tiles <<column, row>> enumerated at the chosen level
  \* ---- packed tiles textures of a WebGL2WarpedMap and the frame drawn from them ----
  cachedTilesInOrder,       \* the values of CachedTilesByTileUrl, in insertion order
  resourceViewportRingBbox, \* this.resourceViewportRingBbox, NoBbox while undefined
  atlas,            \* the four packed tiles textures, as updateTextures() left them
  packedFrom,       \* the cached tiles the last updateTextures() packed, in its order
  frame,            \* the frame of the last render while nothing it was drawn from
                    \* has changed, else NoFrame
  frameViewport,    \* the viewport of that render
  \* ---- WebGL objects of a WebGL2WarpedMap ----
  glObjects,        \* the vertex array and textures of the map not yet deleted
  \* ---- one call of createWarpedTileResponse (tile server) ----
  xyzTile,          \* the argument { x, y, z }, NoTileRequest before the call
  georeferencedMaps,\* the number of maps in the argument georeferencedMaps
  responsePc,       \* "idle" | "addGeoreferencedMap" | "render" | "thrown" | "responded"
  responseError,    \* the message of the Error thrown, "" when none
  rendererCreated,  \* TRUE once new IntArrayRenderer(...) has run
  mapsAdded,        \* number of addGeoreferencedMap calls made
  \* ---- one call of getProfileProperties (IIIF parser) ----
  parsedImage,      \* the argument, NoParsedImage before the call
  profileProperties,\* what the call returned or threw, NoProperties before the call
  \* ---- a GcpTransformer and the calls of the transform helper functions ----
  \* ---- the triangle points of a WebGL2WarpedMap and the transformation transition ----
  projectedGeoPreviousTrianglePoints, \* this.projectedGeoPreviousTrianglePoints
  projectedGeoTrianglePoints,         \* this.projectedGeoTrianglePoints
  projectedGeoToClipTransform,        \* this.projectedGeoToClipTransform, NoValue if unset
  clipPreviousTrianglePoints,         \* the buffer a_clipPreviousTrianglePoint
  clipTrianglePoints,                 \* the buffer a_clipTrianglePoint
  animationProgress,                  \* the blend parameter t of the transition
  animating,                          \* TRUE while a transition runs
  drawnTrianglePoints,                \* the points the last frame drew, <<>> before
  framesDrawn,                        \* number of frames drawn, modulo 2
  triangulationChanges,               \* number of changes handled so far
  lastChange,                         \* "none" | "transformation" | "resourceMask"
  transformer,      \* the transformer fitted to a map's GCPs, NoTransformer before
  transformCall,    \* the last call made with it: its name and arguments
  transformResult   \* what that call returned

tileVars == <<tileUrl, pc, aborted, data, resolved, tileFetched, tileFetchError, failure>>
cacheVars == <<tilesByTileUrl, tilesFetching, removable, waiting, requests>>
throttleVars == <<now, lastArgs, lastCallTime, lastInvokeTime, timerId,
                  invocations, pendingCalls, lastServed, invokeSaw>>
textureVars == <<CachedTilesByTileUrl, packedTiles, texturesUpdated>>
layerVars == <<hasMap, listening, mapOpacity, mapRemoveBackground, view, rendered>>
renderVars == <<throttleVars, textureVars, layerVars>>
listVars == <<warpedMapsById, zOrder, addRejected, lastOp, orderKept>>
mapVars == <<mapState, mapIdOf, hasImageInfo, imageInfoError, everReady>>
viewportVars == <<viewport, viewportArgs, factoryResult, bufferedRectangle, layerViewport>>
selectionVars == <<image, resourceBufferedViewportRing, resourcePerViewportPixel,
                   tileZoomLevel, selectionError, fetchableTiles>>
atlasVars == <<cachedTilesInOrder, resourceViewportRingBbox, atlas, packedFrom, frame,
               frameViewport>>
glVars == <<glObjects>>
transformVars == <<transformer, transformCall, transformResult>>
profileVars == <<parsedImage, profileProperties>>
responseVars == <<xyzTile, georeferencedMaps, responsePc, responseError, rendererCreated,
                  mapsAdded>>
crossfadeVars == <<projectedGeoPreviousTrianglePoints, projectedGeoTrianglePoints,
                   projectedGeoToClipTransform, clipPreviousTrianglePoints,
                   clipTrianglePoints, animationProgress, animating, drawnTrianglePoints,
                   framesDrawn, triangulationChanges, lastChange>>
laterVars == <<glVars, responseVars, profileVars, transformVars, crossfadeVars>>
vars == <<tileVars, cacheVars, renderVars, listVars, mapVars, viewportVars, selectionVars,
          atlasVars, laterVars>>
otherThanCache == <<renderVars, listVars, mapVars, viewportVars, selectionVars, atlasVars,
   laterVars>>
otherThanRender == <<tileVars, cacheVars, listVars, mapVars, viewportVars, selectionVars,
                     atlasVars, laterVars>>
otherThanList == <<tileVars, cacheVars, renderVars, viewportVars, selectionVars, atlasVars,
   laterVars>>
otherThanViewport == <<tileVars, cacheVars, renderVars, listVars, mapVars, selectionVars,
                       atlasVars, laterVars>>
otherThanSelection == <<tileVars, cacheVars, renderVars, listVars, mapVars, viewportVars,
                        atlasVars, laterVars>>
otherThanAtlas == <<tileVars, cacheVars, renderVars, listVars, mapVars, viewportVars,
                    selectionVars, laterVars>>
\* everything but the throttle, the layer and the WebGL objects
otherThanRenderAndGl == <<tileVars, cacheVars, listVars, mapVars, viewportVars,
   selectionVars, atlasVars, responseVars, profileVars, transformVars, crossfadeVars>>
\* everything but the response variables
otherThanResponse == <<tileVars, cacheVars, renderVars, listVars, mapVars, viewportVars,
   selectionVars, atlasVars, glVars, profileVars, transformVars, crossfadeVars>>
\* everything but the profile variables
otherThanProfile == <<tileVars, cacheVars, renderVars, listVars, mapVars, viewportVars,
   selectionVars, atlasVars, glVars, responseVars, transformVars, crossfadeVars>>
\* everything but the transform variables
otherThanTransform == <<tileVars, cacheVars, renderVars, listVars, mapVars, viewportVars,
   selectionVars, atlasVars, glVars, responseVars, profileVars, crossfadeVars>>
\* everything but the crossfade variables
otherThanCrossfade == <<tileVars, cacheVars, renderVars, listVars, mapVars, viewportVars,
   selectionVars, atlasVars, glVars, responseVars, profileVars, transformVars>>

InFlightPcs == {"fetchUrl", "blob", "worker"}

\* CacheableTile.isCachedTile(): whether a tile has fetched its data
isCachedTile(t) == data[t]

\* TileCache.getCacheableTiles(): the tiles in the cache
getCacheableTiles == {tilesByTileUrl[u] : u \in {v \in TileUrls : tilesByTileUrl[v] # NoTile}}

\* TileCache.getTileUrls(): the URLs of the tiles in the cache
getTileUrls == {u \in TileUrls : tilesByTileUrl[u] # NoTile}

\* TileCache.getCachedTiles(): the tiles in the cache that have been fetched
getCachedTiles == {t \in getCacheableTiles : isCachedTile(t)}

\* the number of CacheableTile objects constructed so far
NumCreated == Cardinality({t \in TileIds : tileUrl[t] # NoUrl})

\* tilesFetchingCount of the cache
tilesFetchingCount == Cardinality(tilesFetching)

\* the promise of allRequestedTilesLoaded() resolves when the count reaches zero
AwaitAllLoaded(fetching) == waiting /\ fetching # {}

CacheInit ==
  /\ tileUrl = [t \in TileIds |-> NoUrl]
  /\ pc = [t \in TileIds |-> "idle"]
  /\ aborted = [t \in TileIds |-> FALSE]
  /\ data = [t \in TileIds |-> FALSE]
  /\ resolved = [t \in TileIds |-> FALSE]
  /\ tileFetched = [t \in TileIds |-> 0]
  /\ tileFetchError = [t \in TileIds |-> 0]
  /\ failure = [t \in TileIds |-> "none"]
  /\ tilesByTileUrl = [u \in TileUrls |-> NoTile]
  /\ tilesFetching = {}
  /\ removable = {}
  /\ waiting = FALSE
  /\ requests = [u \in TileUrls |-> 0]

(***************************************************************************)
(* TileCache operations                                                    *)
(***************************************************************************)

\* the URLs of a request that get a new CacheableTile: those not in the cache
NewUrlsAlways(S) == S

NewUrls(S) == {u \in S : tilesByTileUrl[u] = NoTile}

\* the id of the tile object constructed for new URL u of request S
NewTileId(S, u) == NumCreated + Cardinality({v \in NewUrls(S) : v < u}) + 1

\* requestFetchableTiles(fetchableTiles): a tile that is not in the cache gets a
\* CacheableTile whose fetch() is started (it runs up to its first await, the
\* call of fetchUrl); a tile that is in the cache is left alone.
RequestFetchableTiles(S) ==
  /\ S # {}
  /\ NumCreated + Cardinality(NewUrls(S)) <= MaxTiles
  /\ LET new == NewUrls(S)
         ids == {NewTileId(S, u) : u \in new}
         urlOf == [t \in ids |-> CHOOSE u \in new : NewTileId(S, u) = t]
     IN /\ tileUrl' = [t \in TileIds |-> IF t \in ids THEN urlOf[t] ELSE tileUrl[t]]
        /\ pc' = [t \in TileIds |-> IF t \in ids THEN "fetchUrl" ELSE pc[t]]
        /\ tilesByTileUrl' = [u \in TileUrls |->
                                IF u \in new THEN NewTileId(S, u) ELSE tilesByTileUrl[u]]
        /\ tilesFetching' = tilesFetching \cup ids
        /\ waiting' = AwaitAllLoaded(tilesFetching \cup ids)
        /\ requests' = [u \in TileUrls |->
                          IF u \in S THEN (IF requests[u] = 0 THEN 1 ELSE 2) ELSE requests[u]]
  /\ UNCHANGED <<aborted, data, resolved, tileFetched, tileFetchError, failure, removable>>

\* the entries prune(keepSet) aborts: those it evicts whose fetch has not
\* delivered data
PruneAbortsNone(K) == {}

PruneAborts(K) ==
  {tilesByTileUrl[u] : u \in {v \in getTileUrls \ K : ~isCachedTile(tilesByTileUrl[v])}}

\* the URLs prune(keepSet) evicts
PruneEvicts(K) == getTileUrls \ K

\* prune(keepSet): removes the entries that are not in keepSet and aborts the
\* in-flight fetch of an entry before it removes it
Prune(K) ==
  /\ PruneEvicts(K) # {}
  /\ LET evicted == {tilesByTileUrl[u] : u \in PruneEvicts(K)}
     IN /\ aborted' = [t \in TileIds |-> aborted[t] \/ t \in PruneAborts(K)]
        /\ tilesByTileUrl' = [u \in TileUrls |->
                                IF u \in PruneEvicts(K) THEN NoTile ELSE tilesByTileUrl[u]]
        /\ tilesFetching' = tilesFetching \ evicted
        /\ removable' = removable \ evicted
        /\ waiting' = AwaitAllLoaded(tilesFetching \ evicted)
        /\ requests' = [u \in TileUrls |-> IF u \in PruneEvicts(K) THEN 0 ELSE requests[u]]
  /\ UNCHANGED <<tileUrl, pc, data, resolved, tileFetched, tileFetchError, failure>>

\* allRequestedTilesLoaded(): resolves at once when the count is zero, and
\* otherwise when the count reaches zero
AllRequestedTilesLoaded ==
  /\ ~waiting
  /\ tilesFetching # {}
  /\ waiting' = TRUE
  /\ UNCHANGED <<tileVars, tilesByTileUrl, tilesFetching, removable, requests>>

\* the cache's listener for a tile's TILEFETCHED: the entry is no longer in
\* flight; the event of a tile that was pruned is ignored
CacheOnTileFetched(t) ==
  /\ tilesFetching' = IF tilesByTileUrl[tileUrl[t]] = t THEN tilesFetching \ {t} ELSE tilesFetching
  /\ waiting' = AwaitAllLoaded(tilesFetching')
  /\ UNCHANGED <<tilesByTileUrl, removable, requests>>

\* the cache's listener for a tile's TILEFETCHERROR: the entry is no longer in
\* flight and is marked removable; there is no retry
CacheOnTileFetchError(t) ==
  /\ tilesFetching' = IF tilesByTileUrl[tileUrl[t]] = t THEN tilesFetching \ {t} ELSE tilesFetching
  /\ removable' = IF tilesByTileUrl[tileUrl[t]] = t THEN removable \cup {t} ELSE removable
  /\ waiting' = AwaitAllLoaded(tilesFetching')
  /\ UNCHANGED <<tilesByTileUrl, requests>>

(***************************************************************************)
(* CacheableWorkerImageDataTile.fetch()                                    *)
(***************************************************************************)

\* `await fetchUrl(...)` resolves with a response: fetch() goes on to
\* `await response.blob()`
FetchUrlResolves(t) ==
  /\ pc[t] = "fetchUrl"
  /\ ~aborted[t]
  /\ pc' = [pc EXCEPT ![t] = "blob"]
  /\ UNCHANGED <<tileUrl, aborted, data, resolved, tileFetched, tileFetchError, failure, cacheVars>>

\* `await response.blob()` resolves: the worker is created, getImageData is
\* called on it and its promise is left to run; fetch() leaves the try block
\* and returns this.data, so its promise resolves
BlobResolves(t) ==
  /\ pc[t] = "blob"
  /\ ~aborted[t]
  /\ pc' = [pc EXCEPT ![t] = "worker"]
  /\ resolved' = [resolved EXCEPT ![t] = TRUE]
  /\ UNCHANGED <<tileUrl, aborted, data, tileFetched, tileFetchError, failure, cacheVars>>

\* fetchUrl or response.blob() rejects with an error other than AbortError:
\* the catch block dispatches TILEFETCHERROR, and fetch() returns
FetchThrows(t) ==
  /\ pc[t] \in {"fetchUrl", "blob"}
  /\ ~aborted[t]
  /\ pc' = [pc EXCEPT ![t] = "done"]
  /\ failure' = [failure EXCEPT ![t] = "network"]
  /\ tileFetchError' = [tileFetchError EXCEPT ![t] = @ + 1]
  /\ resolved' = [resolved EXCEPT ![t] = TRUE]
  /\ CacheOnTileFetchError(t)
  /\ UNCHANGED <<tileUrl, aborted, data, tileFetched>>

\* the signal was aborted while fetchUrl or response.blob() was awaited: the
\* await rejects with AbortError, which the catch block ignores
FetchAbortError(t) ==
  /\ pc[t] \in {"fetchUrl", "blob"}
  /\ aborted[t]
  /\ pc' = [pc EXCEPT ![t] = "done"]
  /\ resolved' = [resolved EXCEPT ![t] = TRUE]
  /\ UNCHANGED <<tileUrl, aborted, data, tileFetched, tileFetchError, failure, cacheVars>>

\* the worker's getImageData promise resolves without an event being
\* dispatched (data is set alone)
WorkerResolvesSilently(t) ==
  /\ pc[t] = "worker"
  /\ pc' = [pc EXCEPT ![t] = "done"]
  /\ data' = [data EXCEPT ![t] = TRUE]
  /\ UNCHANGED <<tileUrl, aborted, resolved, tileFetched, tileFetchError, failure, cacheVars>>

\* the worker's getImageData promise resolves: the then-callback sets
\* this.data, dispatches TILEFETCHED and terminates the worker, in one turn of
\* the event loop and whatever the state of the abort signal
WorkerResolves(t) ==
  /\ pc[t] = "worker"
  /\ pc' = [pc EXCEPT ![t] = "done"]
  /\ data' = [data EXCEPT ![t] = TRUE]
  /\ tileFetched' = [tileFetched EXCEPT ![t] = @ + 1]
  /\ CacheOnTileFetched(t)
  /\ UNCHANGED <<tileUrl, aborted, resolved, tileFetchError, failure>>

\* the worker's getImageData promise rejects (the blob cannot be decoded): the
\* promise has no rejection handler and is outside the try block by then, so
\* nothing is dispatched
WorkerRejects(t) ==
  /\ pc[t] = "worker"
  /\ pc' = [pc EXCEPT ![t] = "done"]
  /\ failure' = [failure EXCEPT ![t] = "decode"]
  /\ UNCHANGED <<tileUrl, aborted, data, resolved, tileFetched, tileFetchError, cacheVars>>


(***************************************************************************)
(* WebGL2WarpedMap: the throttled texture update                           *)
(***************************************************************************)
THROTTLE_WAIT_MS == 100

\* THROTTLE_OPTIONS.leading
Leading == TRUE

\* THROTTLE_OPTIONS.trailing
TrailingOff == FALSE

Trailing == TRUE

RenderInit ==
  /\ now = THROTTLE_WAIT_MS
  /\ lastArgs = FALSE
  /\ lastCallTime = Undefined
  /\ lastInvokeTime = 0
  /\ timerId = Undefined
  /\ invocations = 0
  /\ pendingCalls = 0
  /\ lastServed = 0
  /\ invokeSaw = {}
  /\ CachedTilesByTileUrl = {}
  /\ packedTiles = {}
  /\ texturesUpdated = FALSE
  /\ hasMap = FALSE
  /\ listening = FALSE
  /\ mapOpacity = FALSE
  /\ mapRemoveBackground = FALSE
  /\ view = 0
  /\ rendered = <<>>

\* what a render draws: the packed textures, the options and the view
Drawn(tiles, opacity, removeBackground, v) ==
  [tiles |-> tiles, opacity |-> opacity, removeBackground |-> removeBackground, view |-> v]

\* WarpedMapLayer._update(): returns when the layer has no map, and otherwise
\* computes the frame state and calls render(), which runs renderInternal()
\* to its end: the renderer draws the textures, options and view of the moment
Update(tiles, opacity, removeBackground, v) ==
  IF hasMap THEN Drawn(tiles, opacity, removeBackground, v) ELSE rendered

\* updateTextures() returns at once when the map has no cached tile
UpdateTexturesReturnsEarly(cachedTiles) == cachedTiles = {}

\* updateTextures(): the cached tiles are packed into the textures and
\* TEXTURESUPDATED is dispatched, on which the renderer reports CHANGED and the
\* layer's rendererChanged() calls _update()
UpdateTextures(cachedTiles, served) ==
  /\ invokeSaw' = cachedTiles
  /\ invocations' = invocations + 1
  /\ lastServed' = served
  /\ pendingCalls' = 0
  /\ IF UpdateTexturesReturnsEarly(cachedTiles)
     THEN /\ texturesUpdated' = FALSE
          /\ UNCHANGED <<packedTiles, rendered>>
     ELSE /\ packedTiles' = cachedTiles
          /\ texturesUpdated' = TRUE
          /\ rendered' = Update(cachedTiles, mapOpacity, mapRemoveBackground, view)

\* lodash shouldInvoke(time), with maxWait = wait as throttle sets it
shouldInvoke(time) ==
  \/ lastCallTime = Undefined
  \/ time - lastCallTime >= THROTTLE_WAIT_MS
  \/ time - lastCallTime < 0
  \/ time - lastInvokeTime >= THROTTLE_WAIT_MS

\* lodash remainingWait(time)
remainingWait(time) ==
  LET timeWaiting == THROTTLE_WAIT_MS - (time - lastCallTime)
      maxWaiting == THROTTLE_WAIT_MS - (time - lastInvokeTime)
  IN IF timeWaiting < maxWaiting THEN timeWaiting ELSE maxWaiting

\* a call of throttledUpdateTextures() when the cached tiles are cachedTiles:
\* the leading edge invokes updateTextures at once and starts the timer; a call
\* inside the wait window is only remembered (lastArgs) for the trailing edge
ThrottledUpdateTextures(cachedTiles) ==
  /\ lastCallTime' = now
  /\ IF shouldInvoke(now)
     THEN IF timerId = Undefined
          THEN \* leadingEdge(lastCallTime)
               /\ lastInvokeTime' = now
               /\ timerId' = now + THROTTLE_WAIT_MS
               /\ IF Leading
                  THEN /\ lastArgs' = FALSE
                       /\ UpdateTextures(cachedTiles, 1)
                  ELSE /\ lastArgs' = TRUE
                       /\ pendingCalls' = (IF pendingCalls = 0 THEN 1 ELSE 2)
                       /\ UNCHANGED <<invocations, lastServed, invokeSaw, packedTiles,
                                      texturesUpdated, rendered>>
          ELSE \* maxing: the timer is restarted and the function invoked
               /\ timerId' = now + THROTTLE_WAIT_MS
               /\ lastInvokeTime' = now
               /\ lastArgs' = FALSE
               /\ UpdateTextures(cachedTiles, IF pendingCalls = 0 THEN 1 ELSE 2)
     ELSE /\ lastArgs' = TRUE
          /\ timerId' = IF timerId = Undefined THEN now + THROTTLE_WAIT_MS ELSE timerId
          /\ pendingCalls' = (IF pendingCalls = 0 THEN 1 ELSE 2)
          /\ UNCHANGED <<lastInvokeTime, invocations, lastServed, invokeSaw, packedTiles,
                         texturesUpdated, rendered>>

\* addCachedTileAndUpdateTextures(cachedTile)
AddCachedTileAndUpdateTextures(u) ==
  /\ CachedTilesByTileUrl' = CachedTilesByTileUrl \cup {u}
  /\ ThrottledUpdateTextures(CachedTilesByTileUrl \cup {u})
  /\ UNCHANGED <<now, hasMap, listening, mapOpacity, mapRemoveBackground, view>>

\* removeCachedTileAndUpdateTextures(tileUrl)
RemoveCachedTileAndUpdateTextures(u) ==
  /\ u \in CachedTilesByTileUrl
  /\ CachedTilesByTileUrl' = CachedTilesByTileUrl \ {u}
  /\ ThrottledUpdateTextures(CachedTilesByTileUrl \ {u})
  /\ UNCHANGED <<now, hasMap, listening, mapOpacity, mapRemoveBackground, view>>

\* lodash timerExpired(): at the end of the wait the trailing edge invokes
\* updateTextures when a call is waiting, and the timer is gone
TimerExpired ==
  /\ timerId # Undefined
  /\ now >= timerId
  /\ IF shouldInvoke(now)
     THEN \* trailingEdge(time)
          /\ timerId' = Undefined
          /\ lastArgs' = FALSE
          /\ IF Trailing /\ lastArgs
             THEN /\ lastInvokeTime' = now
                  /\ UpdateTextures(CachedTilesByTileUrl, pendingCalls)
             ELSE UNCHANGED <<lastInvokeTime, invocations, pendingCalls, lastServed, invokeSaw,
                              packedTiles, texturesUpdated, rendered>>
     ELSE /\ timerId' = now + remainingWait(now)
          /\ UNCHANGED <<lastArgs, lastInvokeTime, invocations, pendingCalls, lastServed,
                         invokeSaw, packedTiles, texturesUpdated, rendered>>
  /\ UNCHANGED <<now, lastCallTime, CachedTilesByTileUrl, hasMap, listening, mapOpacity,
                 mapRemoveBackground, view>>

\* time passes
Tick ==
  /\ now + TickMs <= MaxTime
  /\ now' = now + TickMs
  /\ UNCHANGED <<lastArgs, lastCallTime, lastInvokeTime, timerId, invocations, pendingCalls,
                 lastServed, invokeSaw, textureVars, layerVars>>

(***************************************************************************)
(* WebGL2WarpedMap: the WebGL objects and dispose()                        *)
(***************************************************************************)

\* the objects the constructor creates with gl.createVertexArray() and
\* gl.createTexture()
GlObjects ==
  {"vao", "packedTilesTexture", "packedTilesScaleFactorsTexture",
   "packedTilesPositionsTexture", "packedTilesResourcePositionsAndDimensionsTexture"}

GlInit == glObjects = GlObjects

\* dispose(): gl.deleteVertexArray(this.vao) and gl.deleteTexture() of the
\* four textures; the throttle, its timer and CachedTilesByTileUrl are left
\* as they are
dispose(objects) ==
  objects \ {"vao", "packedTilesTexture", "packedTilesScaleFactorsTexture",
             "packedTilesPositionsTexture", "packedTilesResourcePositionsAndDimensionsTexture"}

Dispose ==
  /\ glObjects # {}
  /\ glObjects' = dispose(glObjects)
  /\ UNCHANGED renderVars

(***************************************************************************)
(* WarpedMapLayer (Leaflet)                                                *)
(***************************************************************************)

\* onAdd(map): sets this._map, listens to the map's move events, _update()
OnAdd ==
  /\ ~listening
  /\ hasMap' = TRUE
  /\ listening' = TRUE
  /\ rendered' = Drawn(packedTiles, mapOpacity, mapRemoveBackground, view)
  /\ UNCHANGED <<throttleVars, textureVars, mapOpacity, mapRemoveBackground, view>>

\* onRemove(map): removes the container and the listeners of the move events
OnRemove ==
  /\ listening
  /\ listening' = FALSE
  /\ UNCHANGED <<throttleVars, textureVars, hasMap, mapOpacity, mapRemoveBackground, view,
                 rendered>>

\* the map fires zoomend, viewreset or moveend: _update()
MoveEnd ==
  /\ listening
  /\ view' = 1 - view
  /\ rendered' = Update(packedTiles, mapOpacity, mapRemoveBackground, 1 - view)
  /\ UNCHANGED <<throttleVars, textureVars, hasMap, listening, mapOpacity, mapRemoveBackground>>

\* setMapOpacity(mapId, opacity): renderer.setMapOpacity, _update()
SetMapOpacity ==
  /\ ~mapOpacity
  /\ mapOpacity' = TRUE
  /\ rendered' = Update(packedTiles, TRUE, mapRemoveBackground, view)
  /\ UNCHANGED <<throttleVars, textureVars, hasMap, listening, mapRemoveBackground, view>>

\* resetMapOpacity(mapId): renderer.resetMapOpacity, _update()
ResetMapOpacity ==
  /\ mapOpacity
  /\ mapOpacity' = FALSE
  /\ rendered' = Update(packedTiles, FALSE, mapRemoveBackground, view)
  /\ UNCHANGED <<throttleVars, textureVars, hasMap, listening, mapRemoveBackground, view>>

\* setMapRemoveBackground(mapId, options): renderer.setMapRemoveBackground, _update()
SetMapRemoveBackground ==
  /\ ~mapRemoveBackground
  /\ mapRemoveBackground' = TRUE
  /\ rendered' = Update(packedTiles, mapOpacity, TRUE, view)
  /\ UNCHANGED <<throttleVars, textureVars, hasMap, listening, mapOpacity, view>>

\* resetMapRemoveBackground(mapId): renderer.resetMapRemoveBackground, and
\* no _update()
ResetMapRemoveBackground ==
  /\ mapRemoveBackground
  /\ mapRemoveBackground' = FALSE
  /\ UNCHANGED <<throttleVars, textureVars, hasMap, listening, mapOpacity, view, rendered>>

(***************************************************************************)
(* WarpedMapList and the life cycle of a WarpedMap                         *)
(***************************************************************************)
ListInit ==
  /\ warpedMapsById = [id \in MapIds |-> NoMap]
  /\ zOrder = <<>>
  /\ addRejected = FALSE
  /\ lastOp = "none"
  /\ orderKept = FALSE
  /\ mapState = [m \in WarpedMaps |-> "none"]
  /\ mapIdOf = [m \in WarpedMaps |-> NoMap]
  /\ hasImageInfo = [m \in WarpedMaps |-> FALSE]
  /\ imageInfoError = [m \in WarpedMaps |-> FALSE]
  /\ everReady = [m \in WarpedMaps |-> FALSE]

\* the mapIds of the maps in the list
Members == {id \in MapIds : warpedMapsById[id] # NoMap}

\* the number of WarpedMap objects constructed so far
NumMaps == Cardinality({m \in WarpedMaps : mapState[m] # "none"})

\* the elements of a sequence
Range(seq) == {seq[i] : i \in 1..Len(seq)}

\* seq without the element id
Without(seq, id) == SelectSeq(seq, LAMBDA x : x # id)

\* getMapZIndex(mapId): the position of a map in the z-order
getMapZIndex(id) == CHOOSE i \in 1..Len(zOrder) : zOrder[i] = id

\* no step of the list other than a z-order operation
NoZOrderOp ==
  /\ lastOp' = "none"
  /\ orderKept' = FALSE

\* whether add accepts a mapId: a mapId that is in the list is rejected
CanAddAlways(id) == TRUE

CanAdd(id) == warpedMapsById[id] = NoMap

\* addGeoreferencedMap: a WarpedMap is created for a new mapId and put in
\* front of the maps of the list; the mapId of a member is rejected with an
\* Error
AddGeoreferencedMap(id) ==
  /\ NoZOrderOp
  /\ IF CanAdd(id)
     THEN /\ NumMaps < MaxMaps
          /\ LET m == NumMaps + 1
             IN /\ warpedMapsById' = [warpedMapsById EXCEPT ![id] = m]
                /\ mapState' = [mapState EXCEPT ![m] = "created"]
                /\ mapIdOf' = [mapIdOf EXCEPT ![m] = id]
          /\ zOrder' = Append(zOrder, id)
          /\ addRejected' = FALSE
          /\ UNCHANGED <<hasImageInfo, imageInfoError, everReady>>
     ELSE /\ addRejected' = TRUE
          /\ UNCHANGED <<warpedMapsById, zOrder, mapVars>>

\* the state a map is in after its image info failed to load
AfterFailedLoadReady == "ready"

AfterFailedLoad == "removed"

\* loadImageInfo() is called for a map that was added
LoadImageInfo(m) ==
  /\ mapState[m] = "created"
  /\ mapState' = [mapState EXCEPT ![m] = "imageInfoLoading"]
  /\ NoZOrderOp
  /\ UNCHANGED <<warpedMapsById, zOrder, addRejected, mapIdOf, hasImageInfo, imageInfoError,
                 everReady>>

\* loadImageInfo() resolves: the image info is parsed and the image ID set
ImageInfoLoaded(m) ==
  /\ mapState[m] = "imageInfoLoading"
  /\ mapState' = [mapState EXCEPT ![m] = "ready"]
  /\ hasImageInfo' = [hasImageInfo EXCEPT ![m] = TRUE]
  /\ everReady' = [everReady EXCEPT ![m] = TRUE]
  /\ NoZOrderOp
  /\ UNCHANGED <<warpedMapsById, zOrder, addRejected, mapIdOf, imageInfoError>>

\* loadImageInfo() rejects: the error is surfaced and the map leaves the list
ImageInfoFails(m) ==
  /\ mapState[m] = "imageInfoLoading"
  /\ mapState' = [mapState EXCEPT ![m] = AfterFailedLoad]
  /\ everReady' = [everReady EXCEPT ![m] = (AfterFailedLoad = "ready")]
  /\ imageInfoError' = [imageInfoError EXCEPT ![m] = TRUE]
  /\ warpedMapsById' = [warpedMapsById EXCEPT ![mapIdOf[m]] = NoMap]
  /\ zOrder' = Without(zOrder, mapIdOf[m])
  /\ NoZOrderOp
  /\ UNCHANGED <<addRejected, mapIdOf, hasImageInfo>>

\* a setter of a ready map (resource mask, transformation type, GCPs): the
\* map is changing during the transition
SetterCalled(m) ==
  /\ mapState[m] = "ready"
  /\ mapState' = [mapState EXCEPT ![m] = "changing"]
  /\ NoZOrderOp
  /\ UNCHANGED <<warpedMapsById, zOrder, addRejected, mapIdOf, hasImageInfo, imageInfoError,
                 everReady>>

\* the transition of a changing map ends
TransitionEnds(m) ==
  /\ mapState[m] = "changing"
  /\ mapState' = [mapState EXCEPT ![m] = "ready"]
  /\ NoZOrderOp
  /\ UNCHANGED <<warpedMapsById, zOrder, addRejected, mapIdOf, hasImageInfo, imageInfoError,
                 everReady>>

\* removeGeoreferencedMap: a ready map leaves the list and is destroyed
RemoveGeoreferencedMap(id) ==
  /\ warpedMapsById[id] # NoMap
  /\ mapState[warpedMapsById[id]] = "ready"
  /\ mapState' = [mapState EXCEPT ![warpedMapsById[id]] = "removed"]
  /\ warpedMapsById' = [warpedMapsById EXCEPT ![id] = NoMap]
  /\ zOrder' = Without(zOrder, id)
  /\ NoZOrderOp
  /\ UNCHANGED <<addRejected, mapIdOf, hasImageInfo, imageInfoError, everReady>>

ZOrderOps == {"toFront", "toBack", "forward", "backward"}

\* the z-index a z-order operation gives the map at position i, before the
\* holes in the z-indices are removed: the maps that are not named keep their
\* order, a named map passes all of them (to front, to back) or one of them
\* (forward, backward)
NewZIndex(op, mapIds, i) ==
  IF zOrder[i] \notin mapIds THEN 2 * i
  ELSE CASE op = "toFront" -> 2 * i + 2 * Len(zOrder) + 1
         [] op = "toBack" -> 2 * i - 2 * Len(zOrder) - 1
         [] op = "forward" -> 2 * i + 3
         [] op = "backward" -> 2 * i - 3

\* the z-order without holes: the maps sorted by their new z-indices
RemoveZIndexHoles(op, mapIds) ==
  LET n == Len(zOrder)
      rank(i) == 1 + Cardinality({j \in 1..n : NewZIndex(op, mapIds, j) < NewZIndex(op, mapIds, i)})
  IN [p \in 1..n |-> zOrder[CHOOSE i \in 1..n : rank(i) = p]]

\* bringMapsToFront, sendMapsToBack, bringMapsForward, sendMapsBackward
ChangeZOrder(op, mapIds) ==
  /\ mapIds # {}
  /\ zOrder' = RemoveZIndexHoles(op, mapIds)
  /\ lastOp' = (IF op = "toFront" /\ mapIds = {zOrder[Len(zOrder)]} THEN "frontToFront"
                ELSE IF op = "toBack" /\ mapIds = {zOrder[1]} THEN "backToBack"
                ELSE "other")
  /\ orderKept' = (RemoveZIndexHoles(op, mapIds) = zOrder)
  /\ UNCHANGED <<warpedMapsById, addRejected, mapVars>>

BringMapsToFront(mapIds) == ChangeZOrder("toFront", mapIds)

SendMapsToBack(mapIds) == ChangeZOrder("toBack", mapIds)

BringMapsForward(mapIds) == ChangeZOrder("forward", mapIds)

SendMapsBackward(mapIds) == ChangeZOrder("backward", mapIds)

(***************************************************************************)
(* Exact arithmetic: a number is a fraction <<n, d>> in lowest terms, d > 0 *)
(***************************************************************************)
RECURSIVE GCD(_, _)
GCD(a, b) == IF b = 0 THEN a ELSE GCD(b, a % b)

Abs(a) == IF a < 0 THEN 0 - a ELSE a

\* the fraction n/d in lowest terms (d # 0)
Frac(n, d) ==
  LET g == GCD(Abs(n), Abs(d))
      sgn == IF d < 0 THEN 0 - 1 ELSE 1
  IN <<(sgn * n) \div g, (sgn * d) \div g>>

Num(n) == <<n, 1>>
Plus(x, y) == Frac(x[1] * y[2] + y[1] * x[2], x[2] * y[2])
Neg(x) == <<0 - x[1], x[2]>>
Minus(x, y) == Plus(x, Neg(y))
Times(x, y) == Frac(x[1] * y[1], x[2] * y[2])
Over(x, y) == Frac(x[1] * y[2], x[2] * y[1])
LessEq(x, y) == x[1] * y[2] <= y[1] * x[2]
MaxOf(x, y) == IF LessEq(x, y) THEN y ELSE x
MinOf(x, y) == IF LessEq(x, y) THEN x ELSE y

\* Math.round(x): the nearest integer, a half rounding up
MathRound(x) == Num((2 * x[1] + x[2]) \div (2 * x[2]))

\* Math.cos and Math.sin of an angle of q quarter turns
Cos(q) == CASE q % 4 = 0 -> Num(1) [] q % 4 = 1 -> Num(0) [] q % 4 = 2 -> Num(0 - 1)
            [] q % 4 = 3 -> Num(0)
Sin(q) == CASE q % 4 = 0 -> Num(0) [] q % 4 = 1 -> Num(1) [] q % 4 = 2 -> Num(0)
            [] q % 4 = 3 -> Num(0 - 1)

(***************************************************************************)
(* @allmaps/stdlib geometry and shared/matrix.js, as Viewport uses them    *)
(***************************************************************************)
\* the smallest and the largest of the values f[i] of a non-empty sequence
RECURSIVE MinOver(_)
MinOver(xs) == IF Len(xs) = 1 THEN xs[1] ELSE MinOf(xs[1], MinOver(Tail(xs)))
RECURSIVE MaxOver(_)
MaxOver(xs) == IF Len(xs) = 1 THEN xs[1] ELSE MaxOf(xs[1], MaxOver(Tail(xs)))

\* computeBbox(points): [minX, minY, maxX, maxY]
computeBbox(points) ==
  LET xs == [i \in 1..Len(points) |-> points[i][1]]
      ys == [i \in 1..Len(points) |-> points[i][2]]
  IN <<MinOver(xs), MinOver(ys), MaxOver(xs), MaxOver(ys)>>

bboxToSize(bbox) == <<Minus(bbox[3], bbox[1]), Minus(bbox[4], bbox[2])>>
bboxToCenter(bbox) ==
  <<Over(Plus(bbox[1], bbox[3]), Num(2)), Over(Plus(bbox[2], bbox[4]), Num(2))>>
bboxToRectangle(bbox) ==
  << <<bbox[1], bbox[2]>>, <<bbox[3], bbox[2]>>, <<bbox[3], bbox[4]>>, <<bbox[1], bbox[4]>> >>
sizeToBbox(size) == <<Num(0), Num(0), size[1], size[2]>>
sizeToCenter(size) == <<Over(size[1], Num(2)), Over(size[2], Num(2))>>
sizeToRectangle(size) == bboxToRectangle(sizeToBbox(size))
scaleSize(size, scale) == <<Times(size[1], scale), Times(size[2], scale)>>
scalePoint(point, scale) == <<Times(point[1], scale), Times(point[2], scale)>>
scalePoints(points, scale) == [i \in 1..Len(points) |-> scalePoint(points[i], scale)]

\* rotatePoint(point, angle): counter-clockwise about the origin
rotatePoint(point, q) ==
  <<Minus(Times(point[1], Cos(q)), Times(point[2], Sin(q))),
    Plus(Times(point[1], Sin(q)), Times(point[2], Cos(q)))>>
rotatePoints(points, q) == [i \in 1..Len(points) |-> rotatePoint(points[i], q)]

\* translatePoints(points, point, 'add' | 'substract')
translatePoints(points, point, addOrSubstract) ==
  [i \in 1..Len(points) |->
     IF addOrSubstract = "substract"
     THEN <<Minus(points[i][1], point[1]), Minus(points[i][2], point[2])>>
     ELSE <<Plus(points[i][1], point[1]), Plus(points[i][2], point[2])>>]

\* midPoint(...points): the mean of the points
RECURSIVE SumOver(_)
SumOver(xs) == IF Len(xs) = 0 THEN Num(0) ELSE Plus(xs[1], SumOver(Tail(xs)))
midPoint(points) ==
  <<Over(SumOver([i \in 1..Len(points) |-> points[i][1]]), Num(Len(points))),
    Over(SumOver([i \in 1..Len(points) |-> points[i][2]]), Num(Len(points)))>>

\* sizesToScale with the two fits taken for one another
sizesToScaleSwapped(size0, size1, fit) ==
  LET scales == <<Over(size0[1], size1[1]), Over(size0[2], size1[2])>>
  IN IF fit = "cover" THEN MaxOf(scales[1], scales[2]) ELSE MinOf(scales[1], scales[2])

\* sizesToScale(size0, size1, fit): the larger of the two ratios for
\* 'contain', the smaller for 'cover'
sizesToScale(size0, size1, fit) ==
  LET scales == <<Over(size0[1], size1[1]), Over(size0[2], size1[2])>>
  IN IF fit = "cover" THEN MinOf(scales[1], scales[2]) ELSE MaxOf(scales[1], scales[2])

\* bufferBboxByRatio(bbox, ratio): each side moves out by ratio times the size
bufferBboxByRatio(bbox, ratio) ==
  LET size == bboxToSize(bbox)
  IN <<Minus(bbox[1], Times(size[1], ratio)), Minus(bbox[2], Times(size[2], ratio)),
       Plus(bbox[3], Times(size[1], ratio)), Plus(bbox[4], Times(size[2], ratio))>>

\* composeTransform(dx1, dy1, sx, sy, angle, dx2, dy2): translate by
\* (dx2, dy2), rotate by angle, scale by (sx, sy), translate by (dx1, dy1)
composeTransform(dx1, dy1, sx, sy, q, dx2, dy2) ==
  <<Times(sx, Cos(q)),
    Times(sy, Sin(q)),
    Neg(Times(sx, Sin(q))),
    Times(sy, Cos(q)),
    Plus(Minus(Times(Times(dx2, sx), Cos(q)), Times(Times(dy2, sx), Sin(q))), dx1),
    Plus(Plus(Times(Times(dx2, sy), Sin(q)), Times(Times(dy2, sy), Cos(q))), dy1)>>

\* applyTransform(transform, point)
applyTransform(t, point) ==
  <<Plus(Plus(Times(t[1], point[1]), Times(t[3], point[2])), t[5]),
    Plus(Plus(Times(t[2], point[1]), Times(t[4], point[2])), t[6])>>

\* invertTransform(transform), for a transform whose determinant is not zero
invertTransform(t) ==
  LET det == Minus(Times(t[1], t[4]), Times(t[2], t[3]))
  IN <<Over(t[4], det),
       Neg(Over(t[2], det)),
       Neg(Over(t[3], det)),
       Over(t[1], det),
       Over(Minus(Times(t[3], t[6]), Times(t[4], t[5])), det),
       Neg(Over(Minus(Times(t[1], t[6]), Times(t[2], t[5])), det))>>

(***************************************************************************)
(* Viewport                                                                *)
(***************************************************************************)
NoViewport == [none |-> TRUE]

\* the viewportSize the constructor stores
StoredSizeAsGiven(viewportSize) == viewportSize

StoredSize(viewportSize) == <<MathRound(viewportSize[1]), MathRound(viewportSize[2])>>

\* computeProjectedGeoRectangle without the translation to the centre
computeProjectedGeoRectangleAtOrigin(viewportSize, projectedGeoPerViewportScale, q, projectedGeoCenter) ==
  LET scaled == scaleSize(viewportSize, projectedGeoPerViewportScale)
      rectangle == sizeToRectangle(scaled)
      centered == translatePoints(rectangle, midPoint(rectangle), "substract")
  IN rotatePoints(centered, q)

\* computeProjectedGeoRectangle(viewportSize, projectedGeoPerViewportScale,
\* rotation, projectedGeoCenter)
computeProjectedGeoRectangle(viewportSize, projectedGeoPerViewportScale, q, projectedGeoCenter) ==
  LET scaled == scaleSize(viewportSize, projectedGeoPerViewportScale)
      rectangle == sizeToRectangle(scaled)
      centered == translatePoints(rectangle, midPoint(rectangle), "substract")
      rotated == rotatePoints(centered, q)
  IN translatePoints(rotated, projectedGeoCenter, "add")

\* composeProjectedGeoToViewportTransform with the centre added, not subtracted
composeProjectedGeoToViewportTransformOffCentre(viewportCenter, scale, q, projectedGeoCenter) ==
  composeTransform(viewportCenter[1], viewportCenter[2],
                   Over(Num(1), scale), Over(Num(0 - 1), scale),
                   4 - q, projectedGeoCenter[1], projectedGeoCenter[2])

\* composeProjectedGeoToViewportTransform()
composeProjectedGeoToViewportTransform(viewportCenter, scale, q, projectedGeoCenter) ==
  composeTransform(viewportCenter[1], viewportCenter[2],
                   Over(Num(1), scale), Over(Num(0 - 1), scale),
                   4 - q, Neg(projectedGeoCenter[1]), Neg(projectedGeoCenter[2]))

\* composeProjectedGeoToCanvasTransform()
composeProjectedGeoToCanvasTransform(canvasCenter, canvasScale, q, projectedGeoCenter) ==
  composeTransform(canvasCenter[1], canvasCenter[2],
                   Over(Num(1), canvasScale), Over(Num(0 - 1), canvasScale),
                   4 - q, Neg(projectedGeoCenter[1]), Neg(projectedGeoCenter[2]))

\* composeProjectedGeoToClipTransform()
composeProjectedGeoToClipTransform(viewportSize, scale, q, projectedGeoCenter) ==
  composeTransform(Num(0), Num(0),
                   Over(Num(2), Times(scale, viewportSize[1])),
                   Over(Num(2), Times(scale, viewportSize[2])),
                   4 - q, Neg(projectedGeoCenter[1]), Neg(projectedGeoCenter[2]))

\* composeViewportToClipTransform without the change of handedness
composeViewportToClipTransformUnflipped(viewportSize, viewportCenter) ==
  composeTransform(Num(0), Num(0),
                   Over(Num(2), viewportSize[1]), Over(Num(2), viewportSize[2]),
                   0, Neg(viewportCenter[1]), Neg(viewportCenter[2]))

\* composeViewportToClipTransform()
composeViewportToClipTransform(viewportSize, viewportCenter) ==
  composeTransform(Num(0), Num(0),
                   Over(Num(2), viewportSize[1]), Over(Num(0 - 2), viewportSize[2]),
                   0, Neg(viewportCenter[1]), Neg(viewportCenter[2]))

\* new Viewport(viewportSize, projectedGeoCenter, projectedGeoPerViewportScale,
\* rotation, devicePixelRatio); the longitude/latitude fields are left out
NewViewport(viewportSizeGiven, projectedGeoCenter, projectedGeoPerViewportScale, q, dpr) ==
  LET viewportSize == StoredSize(viewportSizeGiven)
      viewportCenter == sizeToCenter(viewportSize)
      viewportBbox == sizeToBbox(viewportSize)
      canvasCenter == scalePoint(viewportCenter, dpr)
      projectedGeoPerCanvasScale == Over(projectedGeoPerViewportScale, dpr)
  IN [ projectedGeoCenter |-> projectedGeoCenter,
       projectedGeoPerViewportScale |-> projectedGeoPerViewportScale,
       rotation |-> q,
       viewportSize |-> viewportSize,
       devicePixelRatio |-> dpr,
       projectedGeoRectangle |->
         computeProjectedGeoRectangle(viewportSize, projectedGeoPerViewportScale, q,
                                      projectedGeoCenter),
       projectedGeoSize |-> scaleSize(viewportSize, projectedGeoPerViewportScale),
       viewportCenter |-> viewportCenter,
       viewportBbox |-> viewportBbox,
       viewportRectangle |-> bboxToRectangle(viewportBbox),
       canvasCenter |-> canvasCenter,
       canvasSize |-> scaleSize(viewportSize, dpr),
       projectedGeoPerCanvasScale |-> projectedGeoPerCanvasScale,
       projectedGeoToViewportTransform |->
         composeProjectedGeoToViewportTransform(viewportCenter, projectedGeoPerViewportScale,
                                                q, projectedGeoCenter),
       projectedGeoToCanvasTransform |->
         composeProjectedGeoToCanvasTransform(canvasCenter, projectedGeoPerCanvasScale,
                                              q, projectedGeoCenter),
       projectedGeoToClipTransform |->
         composeProjectedGeoToClipTransform(viewportSize, projectedGeoPerViewportScale,
                                            q, projectedGeoCenter),
       viewportToClipTransform |-> composeViewportToClipTransform(viewportSize, viewportCenter) ]

\* what fromSizeAndPolygon returns for a polygon whose ring has points
fromSizeAndPolygon(viewportSize, projectedGeoPolygon, fit, q, dpr, zoom) ==
  LET projectedGeoRing == projectedGeoPolygon[1]
      rotatedProjectedGeoRing == rotatePoints(projectedGeoRing, 4 - q)
      rotatedProjectedGeoBbox == computeBbox(rotatedProjectedGeoRing)
      rotatedProjectedGeoSize == bboxToSize(rotatedProjectedGeoBbox)
      rotatedProjectedGeoCenter == bboxToCenter(rotatedProjectedGeoBbox)
      projectedGeoPerViewportScale == sizesToScale(rotatedProjectedGeoSize, viewportSize, fit)
      projectedGeoCenter == rotatePoint(rotatedProjectedGeoCenter, q)
  IN NewViewport(viewportSize, projectedGeoCenter, Times(projectedGeoPerViewportScale, zoom),
                 q, dpr)

\* what fromScaleAndPolygon returns for a polygon whose ring has points
fromScaleAndPolygon(projectedGeoPolygon, projectedGeoPerViewportScale, q, dpr, zoom) ==
  LET projectedGeoRing == projectedGeoPolygon[1]
      viewportRing == scalePoints(rotatePoints(projectedGeoRing, 4 - q),
                                  Over(Num(1), projectedGeoPerViewportScale))
      viewportBbox == computeBbox(viewportRing)
      viewportSize == bboxToSize(viewportBbox)
      viewportCenter == bboxToCenter(viewportBbox)
      projectedGeoCenter == rotatePoint(scalePoint(viewportCenter, projectedGeoPerViewportScale), q)
  IN NewViewport(viewportSize, projectedGeoCenter, Times(projectedGeoPerViewportScale, zoom),
                 q, dpr)

\* getProjectedGeoBufferedRectangle(bufferFraction) of Viewport v
getProjectedGeoBufferedRectangle(v, bufferFraction) ==
  LET viewportBufferedBbox == bufferBboxByRatio(v.viewportBbox, bufferFraction)
      viewportBufferedRectangle == bboxToRectangle(viewportBufferedBbox)
  IN [i \in 1..4 |->
        applyTransform(invertTransform(v.projectedGeoToViewportTransform),
                       viewportBufferedRectangle[i])]

(***************************************************************************)
(* Callers of the Viewport factories, and the layer's own Viewport         *)
(***************************************************************************)
\* a point with integer coordinates
Pt(x, y) == <<Num(x), Num(y)>>

\* the viewport sizes callers pass: two integer sizes and one with a fraction
ViewportSizes == { <<Num(200), Num(100)>>, <<Num(3), Num(1)>>, <<Frac(9, 4), Num(1)>> }

\* the rings callers pass: a square, and a triangle off the origin
Rings ==
  { <<Pt(0, 0), Pt(100, 0), Pt(100, 100), Pt(0, 100)>>,
    <<Pt(0 - 2, 1), Pt(4, 1), Pt(0 - 2, 3)>> }

\* a polygon without a ring, and a polygon whose ring has no points
EmptyPolygons == { <<>>, << <<>> >> }

Polygons == {<<ring>> : ring \in Rings} \cup EmptyPolygons

\* getProjectedConvexHull() of a list without maps: undefined, no ring
NoHull == <<>>

Fits == {"contain", "cover"}
Rotations == {0, 1, 2, 3}
DevicePixelRatios == {Num(1), Frac(3, 2)}
Zooms == {Num(1), Num(2)}
Scales == {Num(1), Frac(5, 2)}
BufferFractions == {Frac(1, 4)}
\* the frame states the map hands to the layer, one of them without an extent;
\* transform 0 is that of a Viewport no frame was rendered with
FrameStates == { [transform |-> 1, extent |-> TRUE], [transform |-> 2, extent |-> FALSE] }

ViewportInit ==
  /\ viewport = NoViewport
  /\ viewportArgs = NoViewport
  /\ factoryResult = "none"
  /\ bufferedRectangle = <<>>
  /\ layerViewport = [projectionTransform |-> 0, viewportSize |-> 0]

\* a factory returns Viewport v to its caller, who keeps the first one
Returns(v, args) ==
  /\ viewport' = IF viewport = NoViewport THEN v ELSE viewport
  /\ viewportArgs' = IF viewport = NoViewport THEN args ELSE viewportArgs
  /\ factoryResult' = "viewport"

\* the part the two polygon factories share: a polygon without a ring makes
\* rotatePoints read undefined; a ring without points has no bounding box, and
\* what follows is a Viewport of NaN fields unless a helper throws
OfPolygon(projectedGeoPolygon, v, args) ==
  IF projectedGeoPolygon = <<>>
  THEN factoryResult' = "typeError" /\ UNCHANGED <<viewport, viewportArgs>>
  ELSE IF projectedGeoPolygon[1] = <<>>
       THEN /\ factoryResult' \in {"typeError", "nanViewport"}
            /\ UNCHANGED <<viewport, viewportArgs>>
       ELSE Returns(v, args)

\* Viewport.fromSizeAndPolygon(viewportSize, projectedGeoPolygon, fit, rotation,
\* devicePixelRatio, zoom)
FromSizeAndPolygon(viewportSize, projectedGeoPolygon, fit, q, dpr, zoom) ==
  /\ OfPolygon(projectedGeoPolygon,
               fromSizeAndPolygon(viewportSize, projectedGeoPolygon, fit, q, dpr, zoom),
               [size |-> viewportSize, polygon |-> projectedGeoPolygon, fit |-> fit,
                rotation |-> q, dpr |-> dpr, zoom |-> zoom, scale |-> Num(0)])
  /\ UNCHANGED <<bufferedRectangle, layerViewport>>

\* Viewport.fromScaleAndPolygon(projectedGeoPolygon, projectedGeoPerViewportScale,
\* rotation, devicePixelRatio, zoom)
FromScaleAndPolygon(projectedGeoPolygon, scale, q, dpr, zoom) ==
  /\ OfPolygon(projectedGeoPolygon,
               fromScaleAndPolygon(projectedGeoPolygon, scale, q, dpr, zoom),
               [size |-> <<>>, polygon |-> projectedGeoPolygon, fit |-> "none",
                rotation |-> q, dpr |-> dpr, zoom |-> zoom, scale |-> scale])
  /\ UNCHANGED <<bufferedRectangle, layerViewport>>

\* Viewport.fromSizeAndMaps(viewportSize, warpedMapList, mapIds, fit, rotation,
\* devicePixelRatio, zoom), where the list's convex hull is projectedGeoConvexHull
FromSizeAndMaps(viewportSize, projectedGeoConvexHull, fit, q, dpr, zoom) ==
  IF projectedGeoConvexHull = NoHull
  THEN /\ factoryResult' = "noConvexHullError"
       /\ UNCHANGED <<viewport, viewportArgs, bufferedRectangle, layerViewport>>
  ELSE FromSizeAndPolygon(viewportSize, <<projectedGeoConvexHull>>, fit, q, dpr, zoom)

\* Viewport.fromScaleAndMaps(projectedGeoPerViewportScale, warpedMapList, mapIds,
\* rotation, devicePixelRatio, zoom)
FromScaleAndMaps(scale, projectedGeoConvexHull, q, dpr, zoom) ==
  IF projectedGeoConvexHull = NoHull
  THEN /\ factoryResult' = "noConvexHullError"
       /\ UNCHANGED <<viewport, viewportArgs, bufferedRectangle, layerViewport>>
  ELSE FromScaleAndPolygon(<<projectedGeoConvexHull>>, scale, q, dpr, zoom)

\* the caller asks its Viewport for the buffered rectangle
GetProjectedGeoBufferedRectangle(bufferFraction) ==
  /\ viewport # NoViewport
  /\ bufferedRectangle' = getProjectedGeoBufferedRectangle(viewport, bufferFraction)
  /\ UNCHANGED <<viewport, viewportArgs, factoryResult, layerViewport>>

\* WarpedMapLayer.renderInternal(frameState): the layer's Viewport gets the
\* projection transform of the frame (setProjectionTransform) and its size and
\* extent (updateViewportAndGetTilesNeeded) before the renderer is given it
LayerRenderInternal(frameState) ==
  /\ layerViewport' =
       [projectionTransform |-> frameState.transform,
        viewportSize |-> IF frameState.extent THEN frameState.transform
                         ELSE layerViewport.viewportSize]
  /\ UNCHANGED <<viewport, viewportArgs, factoryResult, bufferedRectangle>>

(***************************************************************************)
(* Tile selection of the base renderer: zoom level and tiles of one map    *)
(***************************************************************************)
NoImage == [none |-> TRUE]
NoLevel == 0

\* the image infos a resource can have: a width and height in resource pixels,
\* a tile size and the scaleFactors of its zoom levels; the last one lists no
\* zoom level
Images ==
  { [width |-> 5, height |-> 3, tileWidth |-> 2, tileHeight |-> 2, scaleFactors |-> {1, 2}],
    [width |-> 4, height |-> 4, tileWidth |-> 2, tileHeight |-> 2, scaleFactors |-> {1, 2, 4}],
    [width |-> 5, height |-> 3, tileWidth |-> 2, tileHeight |-> 2, scaleFactors |-> {2, 4}],
    [width |-> 5, height |-> 3, tileWidth |-> 2, tileHeight |-> 2, scaleFactors |-> {}] }

\* the buffered viewport rings of a render, in resource coordinates: within
\* one tile, across tiles, partly and wholly outside the image
ResourceRings ==
  { <<Pt(0, 0), Pt(1, 0), Pt(0, 1)>>,
    <<Pt(1, 1), Pt(3, 1), Pt(1, 2)>>,
    <<Pt(0, 0), Pt(4, 0), Pt(4, 3), Pt(0, 3)>>,
    <<Pt(3, 0 - 1), Pt(7, 0 - 1), Pt(7, 2), Pt(3, 2)>>,
    <<Pt(6, 5), Pt(8, 5), Pt(8, 7)>> }

\* the resource pixels per viewport pixel of a render
ResourcePerViewportPixels == {Frac(1, 2), Num(1), Frac(3, 2), Num(2), Num(3), Num(5)}

\* a bbox that lies within another, in place of one that overlaps it
isWithin(bbox0, bbox1) ==
  /\ LessEq(bbox1[1], bbox0[1]) /\ LessEq(bbox0[3], bbox1[3])
  /\ LessEq(bbox1[2], bbox0[2]) /\ LessEq(bbox0[4], bbox1[4])

\* isOverlapping(bbox0, bbox1): the two have a point in common, borders included
isOverlapping(bbox0, bbox1) ==
  /\ LessEq(bbox1[1], bbox0[3]) /\ LessEq(bbox0[1], bbox1[3])
  /\ LessEq(bbox1[2], bbox0[4]) /\ LessEq(bbox0[2], bbox1[4])

Least(a, b) == IF a <= b THEN a ELSE b

\* the tiles <<column, row>> of the zoom level of scaleFactor: as many columns
\* and rows as it takes to hold the image
TilesAt(img, scaleFactor) ==
  LET w == img.tileWidth * scaleFactor
      h == img.tileHeight * scaleFactor
  IN (0 .. ((img.width + w - 1) \div w) - 1) \X (0 .. ((img.height + h - 1) \div h) - 1)

\* the resource region of a tile, as a bbox: (column * tileW * sf,
\* row * tileH * sf, tileW * sf, tileH * sf) clipped to the image size
computeBboxTile(img, scaleFactor, tile) ==
  LET w == img.tileWidth * scaleFactor
      h == img.tileHeight * scaleFactor
  IN <<Num(tile[1] * w), Num(tile[2] * h),
       Num(Least((tile[1] + 1) * w, img.width)), Num(Least((tile[2] + 1) * h, img.height))>>

\* tile enumeration: the tiles of the level whose resource region overlaps the
\* bbox of the ring
enumerateTiles(img, scaleFactor, ring) ==
  { tile \in TilesAt(img, scaleFactor) :
      isOverlapping(computeBboxTile(img, scaleFactor, tile), computeBbox(ring)) }

\* a zoom-level selection that takes the next coarser level
selectZoomLevelCoarser(scaleFactors, perPixel) ==
  LET atLeast == {sf \in scaleFactors : LessEq(perPixel, Num(sf))}
  IN IF atLeast # {}
     THEN CHOOSE sf \in atLeast : \A other \in atLeast : sf <= other
     ELSE CHOOSE sf \in scaleFactors : \A other \in scaleFactors : other <= sf

\* zoom-level selection over the levels of an image that has some: the largest
\* scaleFactor that is at most perPixel; when every level is coarser than that,
\* the level of the highest resolution
selectZoomLevel(scaleFactors, perPixel) ==
  LET atMost == {sf \in scaleFactors : LessEq(Num(sf), perPixel)}
  IN IF atMost # {}
     THEN CHOOSE sf \in atMost : \A other \in atMost : other <= sf
     ELSE CHOOSE sf \in scaleFactors : \A other \in scaleFactors : sf <= other

SelectionInit ==
  /\ image = NoImage
  /\ resourceBufferedViewportRing = <<>>
  /\ resourcePerViewportPixel = Num(0)
  /\ tileZoomLevel = NoLevel
  /\ selectionError = "none"
  /\ fetchableTiles = {}

\* the image info of the map's resource has been loaded and parsed
ImageInfoParsed(img) ==
  /\ image = NoImage
  /\ image' = img
  /\ UNCHANGED <<resourceBufferedViewportRing, resourcePerViewportPixel, tileZoomLevel,
                 selectionError, fetchableTiles>>

\* steps 3 and 4 of a render for the map: the zoom level is chosen for the
\* render's resourcePerViewportPixel and the tiles of that level are enumerated
\* for its buffered ring; an image without levels ends the selection with
\* NoZoomLevelError
SelectTiles(ring, perPixel) ==
  /\ image # NoImage
  /\ resourceBufferedViewportRing' = ring
  /\ resourcePerViewportPixel' = perPixel
  /\ IF image.scaleFactors = {}
     THEN /\ selectionError' = "NoZoomLevelError"
          /\ tileZoomLevel' = NoLevel
          /\ fetchableTiles' = {}
     ELSE /\ selectionError' = "none"
          /\ tileZoomLevel' = selectZoomLevel(image.scaleFactors, perPixel)
          /\ fetchableTiles' = enumerateTiles(image, tileZoomLevel', ring)
  /\ UNCHANGED image

(***************************************************************************)
(* The packed tiles textures of a WebGL2WarpedMap, and drawing from them   *)
(***************************************************************************)
\* the image of the map whose tiles are packed
AtlasImage ==
  [width |-> 4, height |-> 3, tileWidth |-> 2, tileHeight |-> 2, scaleFactors |-> {1, 2}]

\* the tiles <<column, row, scaleFactor>> that get cached: two tiles of the
\* finest level, the lower one cut by the image's border, and the tile of the
\* coarser level that holds the whole image
AtlasTiles == { <<0, 0, 1>>, <<0, 1, 1>>, <<0, 0, 2>> }

NoBbox == <<>>
NoFrame == <<>>

\* the viewports rendered with: the best scaleFactor for the viewport, and the
\* bbox of the viewport's ring on the resource
AtlasViewports ==
  [bestScaleFactor : {1, 2},
   ringBbox : { <<Num(0), Num(0), Num(4), Num(3)>>, <<Num(0), Num(0), Num(1), Num(1)>> }]

\* the resource points of the fragments drawn
FragmentPoints == { <<0, 0>>, <<1, 1>>, <<1, 2>>, <<3, 2>> }

\* computeBboxTile(tile)
TileBbox(tile) == computeBboxTile(AtlasImage, tile[3], <<tile[1], tile[2]>>)

\* a tile of the finest level whose imageRequest has no region
RegionlessTiles == { <<1, 0, 1>> }
NoRegion == <<>>

\* the part of the resource a tile holds: x, y, width and height
TileRegion(tile) ==
  LET bbox == TileBbox(tile)
  IN [x |-> bbox[1][1], y |-> bbox[2][1],
      width |-> bbox[3][1] - bbox[1][1], height |-> bbox[4][1] - bbox[2][1]]

\* cachedTile.imageRequest.region: x, y, width and height on the resource
ImageRequestRegion(tile) ==
  IF tile \in RegionlessTiles THEN NoRegion ELSE TileRegion(tile)

\* cachedTile.data: the width and height of the tile's bitmap, the region at
\* the scale of its level
BitmapSize(tile) ==
  LET region == TileRegion(tile)
  IN [width |-> (region.width + tile[3] - 1) \div tile[3],
      height |-> (region.height + tile[3] - 1) \div tile[3]]

\* potpack(boxes): sorts the boxes by height, the higher first and equal ones
\* in the order they came, and gives each its place; here all on one row
potpack(boxes) ==
  LET n == Len(boxes)
      rank(i) == Cardinality({j \in 1..n : \/ boxes[j].h > boxes[i].h
                                           \/ boxes[j].h = boxes[i].h /\ j < i}) + 1
      sorted == [k \in 1..n |-> boxes[CHOOSE i \in 1..n : rank(i) = k]]
      widthBefore[k \in 0..n] == IF k = 0 THEN 0 ELSE widthBefore[k - 1] + sorted[k].w
  IN [k \in 1..n |-> [sorted[k] EXCEPT !.x = widthBefore[k - 1], !.y = 0]]

\* the textures of a map no tile was packed for
EmptyTextures ==
  [ packedTilesTexture |-> <<>>, packedTilesPositions |-> <<>>,
    packedTilesResourcePositionsAndDimensions |-> <<>>, packedTilesScaleFactors |-> <<>> ]

\* array.flat(): the arrays among the elements are replaced by their elements,
\* an element that is undefined stays one element; the elements of the result
\* are <<number>>, or NoRegion for undefined
Flat(array) ==
  LET flat[k \in 0..Len(array)] ==
        IF k = 0 THEN <<>>
        ELSE flat[k - 1] \o (IF array[k] = NoRegion THEN <<NoRegion>>
                             ELSE [i \in 1..Len(array[k]) |-> <<array[k][i]>>])
  IN flat[Len(array)]

\* new Int32Array(array): undefined becomes 0
Int32Array(array) == [i \in 1..Len(array) |-> IF array[i] = NoRegion THEN 0 ELSE array[i][1]]

\* gl.texImage2D(TEXTURE_2D, 0, RGBA32I, 1, height, 0, RGBA_INTEGER, INT, pixels)
\* on a texture that holds texture: pixels shorter than 4 * height is an
\* INVALID_OPERATION that leaves the texture as it is
texImage2DRegions(texture, height, pixels) ==
  IF Len(pixels) < 4 * height THEN texture
  ELSE [k \in 1..height |->
          [x |-> pixels[4 * k - 3], y |-> pixels[4 * k - 2],
           width |-> pixels[4 * k - 1], height |-> pixels[4 * k]]]

\* the textures updateTextures() makes of the cached tiles that passed its
\* filter, when they held textures before
PackedTextures(cachedTiles, textures) ==
  LET packed ==
        potpack([index \in 1..Len(cachedTiles) |->
                   [w |-> BitmapSize(cachedTiles[index]).width,
                    h |-> BitmapSize(cachedTiles[index]).height,
                    x |-> 0, y |-> 0, index |-> index]])
      count == Len(packed)
  IN [ packedTilesTexture |->
         [k \in 1..count |-> [x |-> packed[k].x, y |-> packed[k].y,
                              imageBitmap |-> cachedTiles[packed[k].index]]],
       packedTilesPositions |->
         [k \in 1..count |-> <<packed[k].x, packed[k].y>>],
       packedTilesResourcePositionsAndDimensions |->
         LET regions ==
               [k \in 1..count |->
                  LET region == ImageRequestRegion(cachedTiles[packed[k].index])
                  IN IF region # NoRegion
                     THEN <<region.x, region.y, region.width, region.height>>
                     ELSE NoRegion]
         IN texImage2DRegions(textures.packedTilesResourcePositionsAndDimensions, count,
                              Int32Array(Flat(regions))),
       packedTilesScaleFactors |->
         [k \in 1..count |-> cachedTiles[packed[k].index][3]] ]

\* the cached tiles updateTextures() packs: those whose bbox overlaps
\* this.resourceViewportRingBbox, all when that is undefined
InsideViewport(cachedTiles, ringBbox) ==
  SelectSeq(cachedTiles,
            LAMBDA tile : IF ringBbox = NoBbox THEN TRUE
                          ELSE isOverlapping(TileBbox(tile), ringBbox))

\* updateTextures(): returns at once when no tile is cached
updateTextures(cachedTiles, ringBbox, textures) ==
  IF Len(cachedTiles) = 0 THEN textures
  ELSE PackedTextures(InsideViewport(cachedTiles, ringBbox), textures)

\* a fragment shader that samples the first entry that holds the point
firstEntry(textures, entries) ==
  CHOOSE k \in entries : \A other \in entries : k <= other

\* the entry the fragment shader samples, of those that hold the point: the
\* one of the exact zoom level, else the least coarse
preferredEntry(textures, entries) ==
  CHOOSE k \in entries :
    \A other \in entries :
      textures.packedTilesScaleFactors[k] <= textures.packedTilesScaleFactors[other]

\* the texel of the packed tiles texture at (x, y): the pixel of the bitmap
\* that was written there, as <<tile, column, row>>
Texel(textures, x, y) ==
  LET written == {k \in 1..Len(textures.packedTilesTexture) :
                    LET sub == textures.packedTilesTexture[k]
                        size == BitmapSize(sub.imageBitmap)
                    IN /\ sub.x <= x /\ x < sub.x + size.width
                       /\ sub.y <= y /\ y < sub.y + size.height}
  IN IF written = {} THEN <<"blank">>
     ELSE LET k == CHOOSE k \in written : \A other \in written : other <= k
              sub == textures.packedTilesTexture[k]
          IN <<sub.imageBitmap, x - sub.x, y - sub.y>>

\* the colour of the fragment at a resource point: the texel of the entry the
\* shader prefers among those of the best scaleFactor or coarser whose region
\* holds the point; transparent when there is none
Fragment(textures, point, bestScaleFactor) ==
  LET entries ==
        {k \in 1..Len(textures.packedTilesScaleFactors) :
           LET region == textures.packedTilesResourcePositionsAndDimensions[k]
           IN /\ textures.packedTilesScaleFactors[k] >= bestScaleFactor
              /\ region.x <= point[1] /\ point[1] < region.x + region.width
              /\ region.y <= point[2] /\ point[2] < region.y + region.height}
  IN IF entries = {} THEN <<"transparent">>
     ELSE LET k == preferredEntry(textures, entries)
              region == textures.packedTilesResourcePositionsAndDimensions[k]
              scaleFactor == textures.packedTilesScaleFactors[k]
              position == textures.packedTilesPositions[k]
          IN Texel(textures,
                   position[1] + ((point[1] - region.x) \div scaleFactor),
                   position[2] + ((point[2] - region.y) \div scaleFactor))

\* the frame drawn from the textures for a viewport
Draw(textures, bestScaleFactor) ==
  [point \in FragmentPoints |-> Fragment(textures, point, bestScaleFactor)]

AtlasInit ==
  /\ cachedTilesInOrder = <<>>
  /\ resourceViewportRingBbox = NoBbox
  /\ atlas = EmptyTextures
  /\ packedFrom = <<>>
  /\ frame = NoFrame
  /\ frameViewport = NoFrame

\* a tile's fetch has completed: addCachedTileAndUpdateTextures sets it in
\* CachedTilesByTileUrl; the throttled updateTextures runs as UpdatePackedTextures
AddCachedTile(tile) ==
  /\ \A i \in 1..Len(cachedTilesInOrder) : cachedTilesInOrder[i] # tile
  /\ cachedTilesInOrder' = Append(cachedTilesInOrder, tile)
  /\ frame' = NoFrame
  /\ frameViewport' = NoFrame
  /\ UNCHANGED <<resourceViewportRingBbox, atlas, packedFrom>>

\* removeCachedTileAndUpdateTextures: the tile is deleted from CachedTilesByTileUrl
RemoveCachedTile(tile) ==
  /\ \E i \in 1..Len(cachedTilesInOrder) : cachedTilesInOrder[i] = tile
  /\ cachedTilesInOrder' = SelectSeq(cachedTilesInOrder, LAMBDA other : other # tile)
  /\ frame' = NoFrame
  /\ frameViewport' = NoFrame
  /\ UNCHANGED <<resourceViewportRingBbox, atlas, packedFrom>>

\* the throttled function invokes updateTextures()
UpdatePackedTextures ==
  /\ atlas' = updateTextures(cachedTilesInOrder, resourceViewportRingBbox, atlas)
  /\ packedFrom' = IF Len(cachedTilesInOrder) = 0 THEN packedFrom
                   ELSE InsideViewport(cachedTilesInOrder, resourceViewportRingBbox)
  /\ frame' = IF atlas' = atlas THEN frame ELSE NoFrame
  /\ frameViewport' = IF atlas' = atlas THEN frameViewport ELSE NoFrame
  /\ UNCHANGED <<cachedTilesInOrder, resourceViewportRingBbox>>

\* a render with viewport v: the renderer sets the map's resourceViewportRingBbox
\* and draws the map from its textures
RenderFrame(v) ==
  /\ resourceViewportRingBbox' = v.ringBbox
  /\ frame' = Draw(atlas, v.bestScaleFactor)
  /\ frameViewport' = v
  /\ UNCHANGED <<cachedTilesInOrder, atlas, packedFrom>>

(***************************************************************************)
(* Tile server: createWarpedTileResponse                                   *)
(***************************************************************************)
\* the number NaN, beside the fractions
NaN == <<0, 0>>

\* JavaScript's number >= 0: false for NaN
AtLeastZero(number) == number # NaN /\ LessEq(Num(0), number)

\* the tile coordinates a caller passes: negative, zero, whole, fractional, NaN
TileCoordinates == {Num(0 - 1), Num(0), Num(1), Num(2), Frac(3, 2), NaN}

\* the lengths of the georeferencedMaps argument
GeoreferencedMapCounts == {0, 1, 2}

NoTileRequest == <<>>

ResponseInit ==
  /\ xyzTile = NoTileRequest
  /\ georeferencedMaps = 0
  /\ responsePc = "idle"
  /\ responseError = ""
  /\ rendererCreated = FALSE
  /\ mapsAdded = 0

\* the guard of createWarpedTileResponse: !(x >= 0 && y >= 0 && z >= 0)
tileIsRefused(x, y, z) == ~(AtLeastZero(x) /\ AtLeastZero(y) /\ AtLeastZero(z))

\* createWarpedTileResponse(georeferencedMaps, options, { x, y, z }) up to its
\* first await: the guard throws, or the renderer is created and the first
\* map is added; without maps the render is started
CreateWarpedTileResponse(count, x, y, z) ==
  /\ responsePc = "idle"
  /\ xyzTile' = [x |-> x, y |-> y, z |-> z]
  /\ georeferencedMaps' = count
  /\ IF tileIsRefused(x, y, z)
     THEN /\ responsePc' = "thrown"
          /\ responseError' = "x, y and z must be positive integers"
          /\ UNCHANGED <<rendererCreated, mapsAdded>>
     ELSE /\ rendererCreated' = TRUE
          /\ mapsAdded' = IF count = 0 THEN 0 ELSE 1
          /\ responsePc' = IF count = 0 THEN "render" ELSE "addGeoreferencedMap"
          /\ UNCHANGED responseError

\* `await renderer.addGeoreferencedMap(georeferencedMap)` resolves: the next
\* map is added, or the viewport of the tile is made and the render started
AddGeoreferencedMapResolves ==
  /\ responsePc = "addGeoreferencedMap"
  /\ IF mapsAdded < georeferencedMaps
     THEN /\ mapsAdded' = mapsAdded + 1
          /\ UNCHANGED responsePc
     ELSE /\ responsePc' = "render"
          /\ UNCHANGED mapsAdded
  /\ UNCHANGED <<xyzTile, georeferencedMaps, responseError, rendererCreated>>

\* `await renderer.render(viewport)` resolves: the tile is encoded as PNG and
\* the Response returned
RenderResolves ==
  /\ responsePc = "render"
  /\ responsePc' = "responded"
  /\ UNCHANGED <<xyzTile, georeferencedMaps, responseError, rendererCreated, mapsAdded>>

(***************************************************************************)
(* IIIF parser: getProfileProperties                                       *)
(***************************************************************************)
\* a property that is undefined; a defined one is <<value>>
NoValue == <<>>

\* Number.NEGATIVE_INFINITY, beside the fractions
NEGATIVE_INFINITY == <<0 - 1, 0>>

anyRegionAndSizeFeatures == {"regionByPx", "sizeByWh"}

Level0Uri == "http://iiif.io/api/image/2/level0.json"
Level1Uri == "http://iiif.io/api/image/2/level1.json"
Level2Uri == "http://iiif.io/api/image/2/level2.json"
\* a profile URI the parser does not know
OtherUri == "http://iiif.io/api/image/1/level2.json"
ProfileUris == {Level0Uri, Level1Uri, Level2Uri, OtherUri}

\* the feature lists of a profile description or of extraFeatures: undefined,
\* or a list with none, one or both of the two features
FeatureLists ==
  {NoValue, <<{}>>, <<{"regionByPx"}>>, <<{"sizeByWh", "mirroring"}>>,
   <<{"regionByPx", "sizeByWh"}>>}

\* the maxWidth, maxHeight and maxArea an image or a description gives
Maxima ==
  { [maxWidth |-> NoValue, maxHeight |-> NoValue, maxArea |-> NoValue],
    [maxWidth |-> <<Num(100)>>, maxHeight |-> NoValue, maxArea |-> NoValue],
    [maxWidth |-> <<Num(100)>>, maxHeight |-> <<Num(200)>>, maxArea |-> NoValue],
    [maxWidth |-> <<Num(200)>>, maxHeight |-> <<Num(100)>>, maxArea |-> <<Num(0)>>] }

\* the profile descriptions of an Image API 2 image
ProfileDescriptions ==
  { [uri |-> "", supports |-> list, maxWidth |-> maxima.maxWidth,
     maxHeight |-> maxima.maxHeight, maxArea |-> maxima.maxArea] :
      list \in FeatureLists \ {<<{}>>, <<{"sizeByWh", "mirroring"}>>}, maxima \in Maxima }

\* the entries of the profile array of an Image API 2 image: a URI, or a
\* description (uri "")
ProfileEntries ==
  [uri : ProfileUris, supports : {NoValue},
   maxWidth : {NoValue}, maxHeight : {NoValue}, maxArea : {NoValue}]
    \cup ProfileDescriptions

\* the longest profile array
MaxProfiles == 2

NoParsedImage == [key |-> ""]
NoProperties == [error |-> "not called"]

\* the images getProfileProperties is called with: Image API 3 ('id'), Image
\* API 2 ('@id') and objects with neither key
ParsedImages ==
  { [key |-> "id", profile |-> level, extraFeatures |-> list, maxWidth |-> maxima.maxWidth,
     maxHeight |-> maxima.maxHeight, maxArea |-> maxima.maxArea] :
      level \in {"level0", "level1", "level2"}, list \in FeatureLists, maxima \in Maxima }
    \cup UNION {[key : {"@id"}, profile : [1..n -> ProfileEntries]] : n \in 0..MaxProfiles}
    \cup {[key |-> "none"]}

ProfileInit ==
  /\ parsedImage = NoParsedImage
  /\ profileProperties = NoProperties

\* what parseProfileUri(uri) returns, Undefined when it throws
parseProfileUri(uri) ==
  IF uri = Level0Uri THEN 0
  ELSE IF uri = Level1Uri THEN 1
  ELSE IF uri = Level2Uri THEN 2
  ELSE Undefined

\* features.every(feature => list && list.includes(feature))
everyFeatureIn(list) ==
  \A feature \in anyRegionAndSizeFeatures : list # NoValue /\ feature \in list[1]

\* a description is taken to support any region and size with one of the features
parseImage2ProfileDescriptionOneFeature(parsedProfileDescription) ==
  [maxWidth |-> parsedProfileDescription.maxWidth,
   maxHeight |-> parsedProfileDescription.maxHeight,
   maxArea |-> parsedProfileDescription.maxArea,
   supportsAnyRegionAndSize |->
     \E feature \in anyRegionAndSizeFeatures :
       /\ parsedProfileDescription.supports # NoValue
       /\ feature \in parsedProfileDescription.supports[1]]

\* parseImage2ProfileDescription(parsedProfileDescription)
parseImage2ProfileDescription(parsedProfileDescription) ==
  [maxWidth |-> parsedProfileDescription.maxWidth,
   maxHeight |-> parsedProfileDescription.maxHeight,
   maxArea |-> parsedProfileDescription.maxArea,
   supportsAnyRegionAndSize |-> everyFeatureIn(parsedProfileDescription.supports)]

\* Math.max(a, b) of a number a and a number or -Infinity b
MathMax(a, b) == IF b = NEGATIVE_INFINITY THEN a ELSE MaxOf(a, b)

\* maximum >= 0 ? maximum : undefined
AtLeastZeroOrUndefined(maximum) ==
  IF maximum # NEGATIVE_INFINITY /\ LessEq(Num(0), maximum) THEN <<maximum>> ELSE NoValue

\* the forEach of getProfileProperties over the profile array of an Image API
\* 2 image: the variables after the first k entries, error set when
\* parseProfileUri has thrown (the entries after it are not visited)
forEachProfile(profile) ==
  LET after[k \in 0..Len(profile)] ==
        IF k = 0
        THEN [error |-> "", supportsAnyRegionAndSize |-> FALSE,
              maxWidth |-> NEGATIVE_INFINITY, maxHeight |-> NEGATIVE_INFINITY,
              maxArea |-> NEGATIVE_INFINITY]
        ELSE LET before == after[k - 1]
                 entry == profile[k]
             IN IF before.error # "" THEN before
                ELSE IF entry.uri # ""
                THEN IF parseProfileUri(entry.uri) = Undefined
                     THEN [before EXCEPT !.error = "Unsupported IIIF Image Profile"]
                     ELSE [before EXCEPT !.supportsAnyRegionAndSize =
                                           @ \/ parseProfileUri(entry.uri) >= 1]
                ELSE LET description == parseImage2ProfileDescription(entry)
                     IN [error |-> "",
                         supportsAnyRegionAndSize |->
                           before.supportsAnyRegionAndSize
                             \/ description.supportsAnyRegionAndSize,
                         maxWidth |-> IF description.maxWidth # NoValue
                                      THEN MathMax(description.maxWidth[1], before.maxWidth)
                                      ELSE before.maxWidth,
                         maxHeight |-> IF description.maxHeight # NoValue
                                       THEN MathMax(description.maxHeight[1], before.maxHeight)
                                       ELSE before.maxHeight,
                         maxArea |-> IF description.maxArea # NoValue
                                     THEN MathMax(description.maxArea[1], before.maxArea)
                                     ELSE before.maxArea]
  IN after[Len(profile)]

\* getProfileProperties(parsedImage): the object returned (error ""), or the
\* message of the Error thrown
getProfileProperties(img) ==
  IF img.key = "id"
  THEN [error |-> "",
        maxWidth |-> img.maxWidth, maxHeight |-> img.maxHeight, maxArea |-> img.maxArea,
        supportsAnyRegionAndSize |->
          IF img.profile = "level0"
          THEN IF img.extraFeatures # NoValue THEN everyFeatureIn(img.extraFeatures)
               ELSE FALSE
          ELSE TRUE]
  ELSE IF img.key = "@id"
  THEN LET last == forEachProfile(img.profile)
       IN IF last.error # "" THEN [error |-> last.error]
          ELSE [error |-> "",
                maxWidth |-> AtLeastZeroOrUndefined(last.maxWidth),
                maxHeight |-> AtLeastZeroOrUndefined(last.maxHeight),
                maxArea |-> AtLeastZeroOrUndefined(last.maxArea),
                supportsAnyRegionAndSize |-> last.supportsAnyRegionAndSize]
  ELSE [error |-> "Invalid Image"]

\* a caller parses an image and asks for the properties of its profile
GetProfileProperties(img) ==
  /\ parsedImage = NoParsedImage
  /\ parsedImage' = img
  /\ profileProperties' = getProfileProperties(img)

(***************************************************************************)
(* GcpTransformer (@allmaps/transform) of the polynomial kind of order 1   *)
(***************************************************************************)
\* the determinant of a 3 x 3 matrix of integers
Det3(m) ==
  m[1][1] * (m[2][2] * m[3][3] - m[2][3] * m[3][2])
    - m[1][2] * (m[2][1] * m[3][3] - m[2][3] * m[3][1])
    + m[1][3] * (m[2][1] * m[3][2] - m[2][2] * m[3][1])

\* the sum of the integers of a sequence
SumOfIntegers(xs) ==
  LET sum[k \in 0..Len(xs)] == IF k = 0 THEN 0 ELSE sum[k - 1] + xs[k]
  IN sum[Len(xs)]

\* the coefficients <<c0, c1, c2>> of the least-squares fit
\* value = c0 + c1 x + c2 y to the values at the points <<x, y>>, by the
\* normal equations and Cramer's rule
leastSquaresFit(points, values) ==
  LET n == Len(points)
      S(f) == SumOfIntegers([i \in 1..n |-> f[i]])
      x == [i \in 1..n |-> points[i][1]]
      y == [i \in 1..n |-> points[i][2]]
      times(a, b) == [i \in 1..n |-> a[i] * b[i]]
      normal == << <<n, S(x), S(y)>>,
                   <<S(x), S(times(x, x)), S(times(x, y))>>,
                   <<S(y), S(times(x, y)), S(times(y, y))>> >>
      right == <<S(values), S(times(x, values)), S(times(y, values))>>
      replaced(k) == [row \in 1..3 |-> [col \in 1..3 |->
                        IF col = k THEN right[row] ELSE normal[row][col]]]
  IN [k \in 1..3 |-> Frac(Det3(replaced(k)), Det3(normal))]

\* the polynomial of order 1 with these coefficients, at a point
evaluatePolynomial(coefficients, point) ==
  Plus(coefficients[1],
       Plus(Times(coefficients[2], point[1]), Times(coefficients[3], point[2])))

\* new GcpTransformer(gcps, 'polynomial'): the forward transformation is
\* fitted to the pairs resource -> geo and the backward transformation, on
\* its own, to the pairs geo -> resource
GcpTransformer(gcps) ==
  LET n == Len(gcps)
      resource == [i \in 1..n |-> gcps[i].resource]
      geo == [i \in 1..n |-> gcps[i].geo]
  IN [ forward |-> << leastSquaresFit(resource, [i \in 1..n |-> geo[i][1]]),
                      leastSquaresFit(resource, [i \in 1..n |-> geo[i][2]]) >>,
       backward |-> << leastSquaresFit(geo, [i \in 1..n |-> resource[i][1]]),
                       leastSquaresFit(geo, [i \in 1..n |-> resource[i][2]]) >> ]

\* transformer.transformForward(point)
transformForward(t, point) ==
  <<evaluatePolynomial(t.forward[1], point), evaluatePolynomial(t.forward[2], point)>>

\* transformer.transformBackward(point)
transformBackward(t, point) ==
  <<evaluatePolynomial(t.backward[1], point), evaluatePolynomial(t.backward[2], point)>>

\* which of the two a helper function hands to the refinement
transformWith(t, direction, point) ==
  IF direction = "transformForward" THEN transformForward(t, point)
  ELSE transformBackward(t, point)

(***************************************************************************)
(* The transform helper functions of the viewport                          *)
(***************************************************************************)
\* the transform options callers pass, beside the defaults maxDepth 0 and
\* maxOffsetRatio 0
TransformOptions ==
  [maxOffsetRatio : {0}, maxDepth : {0}, sourceIsGeographic : BOOLEAN,
   destinationIsGeographic : BOOLEAN, returnDomain : {"normal", "inverse"}]

\* refinementOptionsFromForwardTransformOptions(transformOptions); a function
\* that is not set is "undefined", a set one is named by what it calls
refinementOptionsFromForwardTransformOptions(transformOptions) ==
  [maxOffsetRatio |-> transformOptions.maxOffsetRatio,
   maxDepth |-> transformOptions.maxDepth,
   sourceMidPointFunction |->
     IF transformOptions.sourceIsGeographic THEN "getWorldMidpoint" ELSE "undefined",
   destinationMidPointFunction |->
     IF transformOptions.destinationIsGeographic THEN "getWorldMidpoint" ELSE "undefined",
   destinationDistanceFunction |->
     IF transformOptions.destinationIsGeographic THEN "getWorldDistance" ELSE "undefined",
   returnDomain |-> IF transformOptions.returnDomain = "inverse" THEN "source" ELSE "undefined"]

\* refinementOptionsFromBackwardTransformOptions(transformOptions)
refinementOptionsFromBackwardTransformOptions(transformOptions) ==
  [maxOffsetRatio |-> transformOptions.maxOffsetRatio,
   maxDepth |-> transformOptions.maxDepth,
   sourceMidPointFunction |->
     IF transformOptions.destinationIsGeographic THEN "getWorldMidpoint" ELSE "undefined",
   destinationMidPointFunction |->
     IF transformOptions.sourceIsGeographic THEN "getWorldMidpoint" ELSE "undefined",
   destinationDistanceFunction |->
     IF transformOptions.sourceIsGeographic THEN "getWorldDistance" ELSE "undefined",
   returnDomain |-> IF transformOptions.returnDomain = "inverse" THEN "source" ELSE "undefined"]

\* refineRing(ring, refinementFunction, refinementOptions) at maxDepth 0: no
\* point is added, each point of the ring is transformed; what is returned is
\* written with the options the refinement was given
refineRing(t, ring, direction, refinementOptions) ==
  [points |-> [i \in 1..Len(ring) |-> transformWith(t, direction, ring[i])],
   refinedWith |-> refinementOptions]

\* refineRectangleToRectangles(rectangle, refinementFunction, refinementOptions)
\* at maxDepth 0: the one rectangle of the transformed corners
refineRectangleToRectangles(t, rectangle, direction, refinementOptions) ==
  [points |-> << [i \in 1..Len(rectangle) |-> transformWith(t, direction, rectangle[i])] >>,
   refinedWith |-> refinementOptions]

transformRingForwardToRing(ring, t, transformOptions) ==
  refineRing(t, ring, "transformForward",
             refinementOptionsFromForwardTransformOptions(transformOptions))

transformRingBackwardToRing(ring, t, transformOptions) ==
  refineRing(t, ring, "transformBackward",
             refinementOptionsFromBackwardTransformOptions(transformOptions))

transformRectangleForwardToRectangles(rectangle, t, transformOptions) ==
  refineRectangleToRectangles(t, rectangle, "transformForward",
                              refinementOptionsFromForwardTransformOptions(transformOptions))

\* as the source has it: transformForward and the forward options
transformRectangleBackwardToRectangles(rectangle, t, transformOptions) ==
  refineRectangleToRectangles(t, rectangle, "transformForward",
                              refinementOptionsFromForwardTransformOptions(transformOptions))

(***************************************************************************)
(* A warped map's transformer and its callers                              *)
(***************************************************************************)
NoTransformer == <<>>
NoCall == [name |-> "none"]

\* a ground control point: resource <<x, y>> and projected geo <<x, y>>
Gcp(rx, ry, gx, gy) == [resource |-> <<rx, ry>>, geo |-> <<gx, gy>>]

\* the GCPs of the maps: three GCPs; four GCPs that an affine map satisfies;
\* four GCPs of a warped map, that no affine map satisfies
GcpSets ==
  { << Gcp(0, 0, 1, 1), Gcp(2, 0, 3, 2), Gcp(0, 2, 0, 3) >>,
    << Gcp(0, 0, 1, 0), Gcp(2, 0, 5, 0), Gcp(0, 2, 1, 4), Gcp(2, 2, 5, 4) >>,
    << Gcp(0, 0, 0, 0), Gcp(2, 0, 2, 0), Gcp(0, 2, 0, 2), Gcp(2, 2, 4, 4) >> }

\* points inside the resource mask (0,0)-(2,2) of the maps
MaskPoints == { Pt(1, 1), <<Frac(1, 2), Num(1)>>, <<Frac(3, 2), Frac(1, 2)>>, Pt(1, 0) }

\* rectangles in resource and in projected geo coordinates
Rectangles ==
  { <<Pt(0, 0), Pt(2, 0), Pt(2, 2), Pt(0, 2)>>, <<Pt(1, 1), Pt(3, 1), Pt(3, 2), Pt(1, 2)>> }

TransformInit ==
  /\ transformer = NoTransformer
  /\ transformCall = NoCall
  /\ transformResult = <<>>

\* a WarpedMap is made of a georeferenced map: its transformer is fitted to
\* the projected GCPs
UpdateTransformer(gcps) ==
  /\ transformer = NoTransformer
  /\ transformer' = GcpTransformer(gcps)
  /\ UNCHANGED <<transformCall, transformResult>>

\* a renderer that takes the backward path transforms a point of the mask
\* forward and the result backward
TransformForwardAndBackward(point) ==
  /\ transformer # NoTransformer
  /\ transformCall' = [name |-> "roundTrip", point |-> point]
  /\ transformResult' = transformBackward(transformer, transformForward(transformer, point))
  /\ UNCHANGED transformer

TransformRingForwardToRing(ring, transformOptions) ==
  /\ transformer # NoTransformer
  /\ transformCall' = [name |-> "transformRingForwardToRing", geometry |-> ring,
                       transformOptions |-> transformOptions]
  /\ transformResult' = transformRingForwardToRing(ring, transformer, transformOptions)
  /\ UNCHANGED transformer

TransformRingBackwardToRing(ring, transformOptions) ==
  /\ transformer # NoTransformer
  /\ transformCall' = [name |-> "transformRingBackwardToRing", geometry |-> ring,
                       transformOptions |-> transformOptions]
  /\ transformResult' = transformRingBackwardToRing(ring, transformer, transformOptions)
  /\ UNCHANGED transformer

TransformRectangleForwardToRectangles(rectangle, transformOptions) ==
  /\ transformer # NoTransformer
  /\ transformCall' = [name |-> "transformRectangleForwardToRectangles",
                       geometry |-> rectangle, transformOptions |-> transformOptions]
  /\ transformResult' =
       transformRectangleForwardToRectangles(rectangle, transformer, transformOptions)
  /\ UNCHANGED transformer

TransformRectangleBackwardToRectangles(rectangle, transformOptions) ==
  /\ transformer # NoTransformer
  /\ transformCall' = [name |-> "transformRectangleBackwardToRectangles",
                       geometry |-> rectangle, transformOptions |-> transformOptions]
  /\ transformResult' =
       transformRectangleBackwardToRectangles(rectangle, transformer, transformOptions)
  /\ UNCHANGED transformer

(***************************************************************************)
(* Transformation transition (cross-fade) of a WebGL2WarpedMap.  The       *)
(* handlers transformationChanged and resourceMaskUpdated and the upload   *)
(* of the vertex buffers are in the source; updateTriangulation,           *)
(* startTransformationTransition, the transition frame, resetPrevious,     *)
(* mixPreviousAndNew and the vertex shader are modelled from the           *)
(* specification, section 4.7, and the README.  Coordinates are small      *)
(* dyadic fractions, which Float32Array stores exactly.                    *)
(***************************************************************************)
\* the number of changes of the triangulation a run handles
MaxChanges == 2

\* the triangle points a triangulation can produce (one edge of a triangle)
TrianglePointSets ==
  { <<<<Num(0), Num(0)>>, <<Num(4), Num(0)>>>>,
    <<<<Num(0), Num(4)>>, <<Num(4), Num(4)>>>>,
    <<<<Num(8), Num(0)>>, <<Num(0), Num(8)>>>> }

\* the triangle points of the map before any change
InitialTrianglePoints == <<<<Num(0), Num(0)>>, <<Num(4), Num(0)>>>>

\* the projectedGeoToClipTransform the renderer sets for the viewport
ProjectedGeoToClip == <<Frac(1, 4), Num(0), Num(0), Frac(0 - 1, 4), Num(0 - 1), Num(1)>>

\* the part of the transition's duration that passes between two frames
FrameFractions == {Frac(1, 4), Frac(1, 2)}

CrossFadeInit ==
  /\ projectedGeoPreviousTrianglePoints = InitialTrianglePoints
  /\ projectedGeoTrianglePoints = InitialTrianglePoints
  /\ projectedGeoToClipTransform = NoValue
  /\ clipPreviousTrianglePoints = <<>>
  /\ clipTrianglePoints = <<>>
  /\ animationProgress = Num(0)
  /\ animating = FALSE
  /\ drawnTrianglePoints = <<>>
  /\ framesDrawn = 0
  /\ triangulationChanges = 0
  /\ lastChange = "none"

\* mix(a, b, t) of the shading language, on one point
mix(a, b, t) == <<Plus(a[1], Times(t, Minus(b[1], a[1]))), Plus(a[2], Times(t, Minus(b[2], a[2])))>>

\* mixPreviousAndNew(t): the previous and new points mixed at t
mixPreviousAndNew(previous, new, t) == [i \in 1..Len(previous) |-> mix(previous[i], new[i], t)]

\* resetPrevious(): the previous points become the new points
resetPrevious(previous, new) == new

\* the buffer updateVertexBuffersInternal() makes of triangle points: nothing
\* is uploaded while projectedGeoToClipTransform is not set
clipBuffer(transform, points, buffer) ==
  IF transform = NoValue THEN buffer ELSE [i \in 1..Len(points) |-> applyTransform(transform, points[i])]

\* updateVertexBuffersInternal(), given the values the fields have when it runs
updateVertexBuffersInternal(transform, previous, new) ==
  /\ clipPreviousTrianglePoints' = clipBuffer(transform, previous, clipPreviousTrianglePoints)
  /\ clipTrianglePoints' = clipBuffer(transform, new, clipTrianglePoints)

\* what the vertex shader draws of the two buffers at animation progress t
draw(clipPrevious, clipNew, t) == mixPreviousAndNew(clipPrevious, clipNew, t)

\* transformationChanged(event): updateTriangulation(warpedMap, false) keeps
\* what is on screen as the previous points, then startTransformationTransition()
TransformationChanged(points) ==
  /\ triangulationChanges < MaxChanges
  /\ points # projectedGeoTrianglePoints
  /\ LET previous == IF animating
                       THEN mixPreviousAndNew(projectedGeoPreviousTrianglePoints, projectedGeoTrianglePoints, animationProgress)
                       ELSE projectedGeoTrianglePoints
     IN /\ projectedGeoPreviousTrianglePoints' = previous
        /\ projectedGeoTrianglePoints' = points
        /\ updateVertexBuffersInternal(projectedGeoToClipTransform, previous, points)
  /\ animationProgress' = Num(0)
  /\ animating' = TRUE
  /\ triangulationChanges' = triangulationChanges + 1
  /\ lastChange' = "transformation"
  /\ UNCHANGED <<projectedGeoToClipTransform, drawnTrianglePoints, framesDrawn>>

\* resourceMaskUpdated(event): updateTriangulation(warpedMap) only, which sets
\* the previous and the new triangulation; no transition is started
ResourceMaskUpdated(points) ==
  /\ triangulationChanges < MaxChanges
  /\ points # projectedGeoTrianglePoints
  /\ projectedGeoPreviousTrianglePoints' = points
  /\ projectedGeoTrianglePoints' = points
  /\ updateVertexBuffersInternal(projectedGeoToClipTransform, points, points)
  /\ triangulationChanges' = triangulationChanges + 1
  /\ lastChange' = "resourceMask"
  /\ UNCHANGED <<projectedGeoToClipTransform, animationProgress, animating, drawnTrianglePoints, framesDrawn>>

\* render(): sets the transform of the viewport, uploads the buffers and draws
\* at animation progress t, given the previous points at that moment
renderAt(previous, t) ==
  LET clipPrevious == clipBuffer(ProjectedGeoToClip, previous, clipPreviousTrianglePoints)
      clipNew == clipBuffer(ProjectedGeoToClip, projectedGeoTrianglePoints, clipTrianglePoints)
  IN /\ projectedGeoToClipTransform' = ProjectedGeoToClip
     /\ updateVertexBuffersInternal(ProjectedGeoToClip, previous, projectedGeoTrianglePoints)
     /\ drawnTrianglePoints' = draw(clipPrevious, clipNew, t)
     /\ framesDrawn' = (framesDrawn + 1) % 2

\* a frame of the transition, a part of the duration after the one before: t
\* grows, and at t = 1 the transition ends and the previous points are reset
TransformationTransitionFrame(fraction) ==
  /\ animating
  /\ LET t == MinOf(Num(1), Plus(animationProgress, fraction))
         previous == IF t = Num(1)
                       THEN resetPrevious(projectedGeoPreviousTrianglePoints, projectedGeoTrianglePoints)
                       ELSE projectedGeoPreviousTrianglePoints
     IN /\ animationProgress' = t
        /\ animating' = (t # Num(1))
        /\ projectedGeoPreviousTrianglePoints' = previous
        /\ renderAt(previous, t)
  /\ UNCHANGED <<projectedGeoTrianglePoints, triangulationChanges, lastChange>>

\* a render outside a transition (the viewport moved, a tile arrived)
Render ==
  /\ ~animating
  /\ renderAt(projectedGeoPreviousTrianglePoints, animationProgress)
  /\ UNCHANGED <<projectedGeoPreviousTrianglePoints, projectedGeoTrianglePoints, animationProgress, animating, triangulationChanges, lastChange>>

(***************************************************************************)
(* Specifications                                                          *)
(***************************************************************************)
Init ==
  /\ CacheInit /\ RenderInit /\ ListInit /\ ViewportInit /\ SelectionInit /\ AtlasInit
  /\ GlInit /\ ResponseInit /\ ProfileInit /\ TransformInit /\ CrossFadeInit

CacheNext ==
  \/ \E S \in SUBSET TileUrls : RequestFetchableTiles(S) /\ UNCHANGED otherThanCache
  \/ \E K \in SUBSET TileUrls : Prune(K) /\ UNCHANGED otherThanCache
  \/ AllRequestedTilesLoaded /\ UNCHANGED otherThanCache
  \/ \E t \in TileIds : FetchUrlResolves(t) /\ UNCHANGED otherThanCache
  \/ \E t \in TileIds : BlobResolves(t) /\ UNCHANGED otherThanCache
  \/ \E t \in TileIds : FetchThrows(t) /\ UNCHANGED otherThanCache
  \/ \E t \in TileIds : FetchAbortError(t) /\ UNCHANGED otherThanCache
  \/ \E t \in TileIds : WorkerResolves(t) /\ UNCHANGED otherThanCache
  \/ \E t \in TileIds : WorkerRejects(t) /\ UNCHANGED otherThanCache

\* the tile cache and the fetches of its tiles
SpecCache == Init /\ [][CacheNext]_vars

RenderNext ==
  \/ \E u \in TileUrls : AddCachedTileAndUpdateTextures(u) /\ UNCHANGED otherThanRender
  \/ \E u \in TileUrls : RemoveCachedTileAndUpdateTextures(u) /\ UNCHANGED otherThanRender
  \/ TimerExpired /\ UNCHANGED otherThanRender
  \/ Tick /\ UNCHANGED otherThanRender
  \/ OnAdd /\ UNCHANGED otherThanRender
  \/ OnRemove /\ UNCHANGED otherThanRender
  \/ MoveEnd /\ UNCHANGED otherThanRender
  \/ SetMapOpacity /\ UNCHANGED otherThanRender
  \/ ResetMapOpacity /\ UNCHANGED otherThanRender
  \/ SetMapRemoveBackground /\ UNCHANGED otherThanRender
  \/ ResetMapRemoveBackground /\ UNCHANGED otherThanRender
  \/ Dispose /\ UNCHANGED otherThanRenderAndGl

\* one WebGL2WarpedMap with its throttled texture update, in a WarpedMapLayer
SpecRender == Init /\ [][RenderNext]_vars

ListNext ==
  \/ \E id \in MapIds : AddGeoreferencedMap(id) /\ UNCHANGED otherThanList
  \/ \E id \in MapIds : RemoveGeoreferencedMap(id) /\ UNCHANGED otherThanList
  \/ \E m \in WarpedMaps : LoadImageInfo(m) /\ UNCHANGED otherThanList
  \/ \E m \in WarpedMaps : ImageInfoLoaded(m) /\ UNCHANGED otherThanList
  \/ \E m \in WarpedMaps : ImageInfoFails(m) /\ UNCHANGED otherThanList
  \/ \E m \in WarpedMaps : SetterCalled(m) /\ UNCHANGED otherThanList
  \/ \E m \in WarpedMaps : TransitionEnds(m) /\ UNCHANGED otherThanList
  \/ \E S \in SUBSET Members : BringMapsToFront(S) /\ UNCHANGED otherThanList
  \/ \E S \in SUBSET Members : SendMapsToBack(S) /\ UNCHANGED otherThanList
  \/ \E S \in SUBSET Members : BringMapsForward(S) /\ UNCHANGED otherThanList
  \/ \E S \in SUBSET Members : SendMapsBackward(S) /\ UNCHANGED otherThanList

\* the list of warped maps and the life cycle of its maps
SpecList == Init /\ [][ListNext]_vars

ViewportNext ==
  \/ \E size \in ViewportSizes, polygon \in Polygons, fit \in Fits, q \in Rotations,
        dpr \in DevicePixelRatios, zoom \in Zooms :
       FromSizeAndPolygon(size, polygon, fit, q, dpr, zoom) /\ UNCHANGED otherThanViewport
  \/ \E polygon \in Polygons, scale \in Scales, q \in Rotations,
        dpr \in DevicePixelRatios, zoom \in Zooms :
       FromScaleAndPolygon(polygon, scale, q, dpr, zoom) /\ UNCHANGED otherThanViewport
  \/ \E size \in ViewportSizes, hull \in Rings \cup {NoHull}, fit \in Fits, q \in Rotations,
        dpr \in DevicePixelRatios, zoom \in Zooms :
       FromSizeAndMaps(size, hull, fit, q, dpr, zoom) /\ UNCHANGED otherThanViewport
  \/ \E scale \in Scales, hull \in Rings \cup {NoHull}, q \in Rotations,
        dpr \in DevicePixelRatios, zoom \in Zooms :
       FromScaleAndMaps(scale, hull, q, dpr, zoom) /\ UNCHANGED otherThanViewport
  \/ \E bufferFraction \in BufferFractions :
       GetProjectedGeoBufferedRectangle(bufferFraction) /\ UNCHANGED otherThanViewport
  \/ \E frameState \in FrameStates :
       LayerRenderInternal(frameState) /\ UNCHANGED otherThanViewport

\* Viewports made by the factories, and the Viewport of a WarpedMapLayer
SpecViewport == Init /\ [][ViewportNext]_vars

SelectionNext ==
  \/ \E img \in Images : ImageInfoParsed(img) /\ UNCHANGED otherThanSelection
  \/ \E ring \in ResourceRings, perPixel \in ResourcePerViewportPixels :
       SelectTiles(ring, perPixel) /\ UNCHANGED otherThanSelection

\* zoom-level selection and tile enumeration of the base renderer
SpecSelection == Init /\ [][SelectionNext]_vars

AtlasNext ==
  \/ \E tile \in AtlasTiles : AddCachedTile(tile) /\ UNCHANGED otherThanAtlas
  \/ \E tile \in AtlasTiles : RemoveCachedTile(tile) /\ UNCHANGED otherThanAtlas
  \/ UpdatePackedTextures /\ UNCHANGED otherThanAtlas
  \/ \E v \in AtlasViewports : RenderFrame(v) /\ UNCHANGED otherThanAtlas

\* the textures of a WebGL2WarpedMap under tiles arriving in any order, and
\* the frames drawn from them
SpecAtlas == Init /\ [][AtlasNext]_vars

RegionsNext ==
  \/ \E tile \in AtlasTiles \cup RegionlessTiles : AddCachedTile(tile) /\ UNCHANGED otherThanAtlas
  \/ \E tile \in AtlasTiles \cup RegionlessTiles :
       RemoveCachedTile(tile) /\ UNCHANGED otherThanAtlas
  \/ UpdatePackedTextures /\ UNCHANGED otherThanAtlas

\* the textures of a WebGL2WarpedMap one of whose tiles has an imageRequest
\* without a region
SpecRegions == Init /\ [][RegionsNext]_vars

ResponseNext ==
  \/ \E count \in GeoreferencedMapCounts : \E x, y, z \in TileCoordinates :
       CreateWarpedTileResponse(count, x, y, z) /\ UNCHANGED otherThanResponse
  \/ AddGeoreferencedMapResolves /\ UNCHANGED otherThanResponse
  \/ RenderResolves /\ UNCHANGED otherThanResponse

\* one call of createWarpedTileResponse
SpecResponse == Init /\ [][ResponseNext]_vars

ProfileNext ==
  \E img \in ParsedImages : GetProfileProperties(img) /\ UNCHANGED otherThanProfile

\* getProfileProperties applied to the parsed images
SpecProfile == Init /\ [][ProfileNext]_vars

TransformNext ==
  \/ \E gcps \in GcpSets : UpdateTransformer(gcps) /\ UNCHANGED otherThanTransform
  \/ \E point \in MaskPoints : TransformForwardAndBackward(point) /\ UNCHANGED otherThanTransform
  \/ \E ring \in Rectangles, options \in TransformOptions :
       TransformRingForwardToRing(ring, options) /\ UNCHANGED otherThanTransform
  \/ \E ring \in Rectangles, options \in TransformOptions :
       TransformRingBackwardToRing(ring, options) /\ UNCHANGED otherThanTransform
  \/ \E rectangle \in Rectangles, options \in TransformOptions :
       TransformRectangleForwardToRectangles(rectangle, options) /\ UNCHANGED otherThanTransform
  \/ \E rectangle \in Rectangles, options \in TransformOptions :
       TransformRectangleBackwardToRectangles(rectangle, options) /\ UNCHANGED otherThanTransform

\* a transformer fitted to GCPs, and the calls made with it
SpecTransform == Init /\ [][TransformNext]_vars

CrossFadeNext ==
  \/ \E points \in TrianglePointSets : TransformationChanged(points) /\ UNCHANGED otherThanCrossfade
  \/ \E points \in TrianglePointSets : ResourceMaskUpdated(points) /\ UNCHANGED otherThanCrossfade
  \/ \E fraction \in FrameFractions : TransformationTransitionFrame(fraction) /\ UNCHANGED otherThanCrossfade
  \/ Render /\ UNCHANGED otherThanCrossfade

\* changes of a map's triangulation, and the frames drawn between them
SpecCrossFade == Init /\ [][CrossFadeNext]_vars

(***************************************************************************)
(* Claims about the tile cache                                             *)
(***************************************************************************)

\* the fetches for URL u that are running and have not been cancelled
FetchesInFlight(u) == {t \in TileIds : tileUrl[t] = u /\ pc[t] \in InFlightPcs /\ ~aborted[t]}

\* every fetch() has come to its end
AllFetchesTerminated == \A t \in TileIds : pc[t] \notin InFlightPcs

SingleFlightInv ==
  \A u \in TileUrls :
    /\ Cardinality(FetchesInFlight(u)) <= 1
    /\ requests[u] >= 1 =>
         /\ tilesByTileUrl[u] # NoTile
         /\ tileUrl[tilesByTileUrl[u]] = u
         /\ Cardinality({t \in TileIds : tileUrl[t] = u /\ ~aborted[t] /\ pc[t] # "idle"
                                          /\ (pc[t] \in InFlightPcs \/ tilesByTileUrl[u] = t)}) = 1

SingleFlightStep ==
  \A S \in SUBSET TileUrls :
    RequestFetchableTiles(S) =>
      \A u \in S :
        /\ tilesByTileUrl'[u] # NoTile
        /\ tilesByTileUrl[u] # NoTile => tilesByTileUrl'[u] = tilesByTileUrl[u]

\* C1: whatever the interleaving of requestFetchableTiles calls that name a
\* URL, one fetch is started for it: at most one fetch per URL is in flight at
\* any time, the URL has one entry, and a later call gets the entry the
\* earlier call created.
C1_SingleFlight == []SingleFlightInv /\ [][SingleFlightStep]_vars

\* a URL was named by two calls and its one fetch is in flight
C1_Witness ==
  \E u \in TileUrls : requests[u] = 2 /\ Cardinality(FetchesInFlight(u)) = 1

PruneStep ==
  \A K \in SUBSET TileUrls :
    Prune(K) =>
      /\ \A u \in TileUrls : tilesByTileUrl'[u] # NoTile => u \in K
      /\ \A u \in TileUrls :
           (tilesByTileUrl[u] # NoTile /\ tilesByTileUrl'[u] = NoTile
              /\ pc[tilesByTileUrl[u]] \in InFlightPcs)
             => aborted'[tilesByTileUrl[u]]

\* C2: right after prune(K) every entry of getCacheableTiles() has its URL
\* in K, and every fetch that was in flight for a URL outside K is aborted
\* when its entry is removed.
C2_PruneCorrect == [][PruneStep]_vars

\* an in-flight fetch was aborted and its entry removed, while another entry stayed
C2_Witness ==
  \E t \in TileIds :
    /\ aborted[t]
    /\ tilesByTileUrl[tileUrl[t]] # t
    /\ getTileUrls # {}

\* C3: once abort() has been signalled for a tile, no step of its fetch sets
\* the tile's data or dispatches TILEFETCHED.
C3_AbortedNeverCached ==
  \A t \in TileIds : aborted[t] => (~data[t] /\ tileFetched[t] = 0)

\* C4: TILEFETCHED has been dispatched for a tile exactly when its data is
\* set (once), in every state that can be observed.
C4_FetchedAtomic ==
  \A t \in TileIds : (data[t] <=> tileFetched[t] >= 1) /\ tileFetched[t] <= 1

\* a fetch has succeeded: the data is set and the event dispatched
C4_Witness == \E t \in TileIds : data[t] /\ tileFetched[t] = 1 /\ t \in getCachedTiles

\* C5: a fetch that failed for a reason other than abort (network or decode)
\* has dispatched exactly one TILEFETCHERROR, has no data and is not started
\* again.
C5_FailureEmitsError ==
  \A t \in TileIds :
    (pc[t] = "done" /\ failure[t] # "none" /\ ~aborted[t])
      => (tileFetchError[t] = 1 /\ ~data[t])

\* C6: once every started fetch has terminated (success, failure or
\* cancellation) the in-flight count is back to zero and
\* allRequestedTilesLoaded() has resolved.
C6_SlotsReleased ==
  AllFetchesTerminated => (tilesFetchingCount = 0 /\ ~waiting)

(***************************************************************************)
(* Claims about the throttle and the renders                               *)
(***************************************************************************)

\* a step that is a call of the throttled function
ThrottledCall ==
  \/ \E u \in TileUrls : AddCachedTileAndUpdateTextures(u)
  \/ \E u \in TileUrls : RemoveCachedTileAndUpdateTextures(u)

ThrottleInv ==
  /\ lastArgs => timerId # Undefined
  /\ timerId = Undefined => invokeSaw = CachedTilesByTileUrl

ThrottleStep ==
  /\ invocations' \in {invocations, invocations + 1}
  /\ (ThrottledCall /\ timerId = Undefined /\ now - lastInvokeTime >= THROTTLE_WAIT_MS)
       => invocations' = invocations + 1
  /\ (ThrottledCall /\ timerId # Undefined /\ now - lastInvokeTime < THROTTLE_WAIT_MS)
       => (invocations' = invocations /\ lastArgs' /\ timerId' = timerId)
  /\ (lastArgs /\ ~lastArgs')
       => (invocations' = invocations + 1 /\ now - lastInvokeTime >= THROTTLE_WAIT_MS)
  /\ invocations' = invocations + 1 => invokeSaw' = CachedTilesByTileUrl'

C8_TrailingRender ==
  (listening /\ timerId = Undefined)
    => rendered = Drawn(CachedTilesByTileUrl, mapOpacity, mapRemoveBackground, view)

(***************************************************************************)
(* Claims about the list of warped maps                                    *)
(***************************************************************************)

\* a step that is one of the four z-order operations (every other step of
\* the list resets lastOp)
ZOrderStep == lastOp' # "none"

ZOrderInv ==
  /\ \A i, j \in 1..Len(zOrder) : zOrder[i] = zOrder[j] => i = j
  /\ Range(zOrder) = Members
  /\ \A id \in Members : mapIdOf[warpedMapsById[id]] = id
  /\ lastOp \in {"frontToFront", "backToBack"} => orderKept

ZOrderPreserves ==
  ZOrderStep => (Range(zOrder') = Range(zOrder) /\ Len(zOrder') = Len(zOrder)
                   /\ warpedMapsById' = warpedMapsById)

\* C9: after any sequence of add, remove and z-order operations no mapId is
\* twice in the list and the z-order holds exactly the members, each once; a
\* z-order operation neither adds nor removes a map; bringing the front map to
\* front and sending the back map to back leave the order as it was.
C9_ZOrderPermutation == []ZOrderInv /\ [][ZOrderPreserves]_vars

\* every mapId is in the list, in another order than they were added in, the
\* last add was rejected for the mapId of a member, and the front map was
\* brought to front and the order stayed
C9_Witness ==
  /\ Len(zOrder) = NumMapIds
  /\ \E i \in 1..Len(zOrder) : zOrder[i] # i
  /\ addRejected
  /\ lastOp = "frontToFront"
  /\ orderKept

LifeCycleEdges ==
  { <<"none", "created">>, <<"created", "imageInfoLoading">>,
    <<"imageInfoLoading", "ready">>, <<"imageInfoLoading", "removed">>,
    <<"ready", "changing">>, <<"changing", "ready">>, <<"ready", "removed">> }

LifeCycleStep ==
  \A m \in WarpedMaps :
    /\ mapState'[m] # mapState[m] => <<mapState[m], mapState'[m]>> \in LifeCycleEdges
    /\ (mapState[m] = "imageInfoLoading" /\ mapState'[m] = "ready")
         => (hasImageInfo'[m] /\ ~imageInfoError'[m])
    /\ (mapState[m] = "imageInfoLoading" /\ mapState'[m] = "removed") => imageInfoError'[m]
    /\ (imageInfoError[m] \/ imageInfoError'[m]) => mapState'[m] = "removed"

LifeCycleInv ==
  \A m \in WarpedMaps :
    /\ mapState[m] \in {"ready", "changing"} => hasImageInfo[m]
    /\ everReady[m] => hasImageInfo[m]
    /\ imageInfoError[m] => (mapState[m] = "removed" /\ ~everReady[m] /\ ~hasImageInfo[m])
    /\ mapState[m] \in {"none", "created", "imageInfoLoading"} => ~everReady[m]

C11_ViewportNeverMutated ==
  [][ /\ viewport # NoViewport => viewport' = viewport /\ viewportArgs' = viewportArgs
      /\ layerViewport' = layerViewport ]_vars

\* the points the transforms are compared on: three that span the plane, and
\* one more
SamplePoints == {Pt(0, 0), Pt(1, 0), Pt(0, 1), Pt(0 - 3, 7)}

\* C12: for a Viewport of non-zero scale, projectedGeoToViewportTransform
\* followed by its inverse, and the inverse followed by it, give every point
\* back, and the transform takes projectedGeoCenter to viewportCenter, at
\* every rotation and size.
C12_TransformRoundTrip ==
  viewport # NoViewport =>
    LET transform == viewport.projectedGeoToViewportTransform
        inverse == invertTransform(transform)
    IN /\ \A point \in SamplePoints :
            /\ applyTransform(inverse, applyTransform(transform, point)) = point
            /\ applyTransform(transform, applyTransform(inverse, point)) = point
       /\ applyTransform(transform, viewport.projectedGeoCenter) = viewport.viewportCenter

\* a Viewport that is rotated, whose centre is not the origin and whose scale
\* is not 1
C12_Witness ==
  /\ viewport # NoViewport
  /\ viewport.rotation = 1
  /\ viewport.projectedGeoCenter # Pt(0, 0)
  /\ viewport.projectedGeoPerViewportScale \notin {Num(0), Num(1)}

\* point lies in bbox, its border included
InBbox(bbox, point) ==
  /\ LessEq(bbox[1], point[1]) /\ LessEq(point[1], bbox[3])
  /\ LessEq(bbox[2], point[2]) /\ LessEq(point[2], bbox[4])

\* a rectangle whose sides are parallel to the axes, as every rectangle at a
\* quarter turn is, encloses each point of ring
RectangleEncloses(rectangle, ring) ==
  \A i \in 1..Len(ring) : InBbox(computeBbox(rectangle), ring[i])

\* (b - a) x (point - a): on which side of the edge from a to b point lies
Cross(a, b, point) ==
  Minus(Times(Minus(b[1], a[1]), Minus(point[2], a[2])),
        Times(Minus(b[2], a[2]), Minus(point[1], a[1])))

\* point lies in the convex ring, its border included: on the same side of
\* every edge
InsideRing(ring, point) ==
  LET side(i) == Cross(ring[i], ring[(i % Len(ring)) + 1], point)
  IN \/ \A i \in 1..Len(ring) : LessEq(Num(0), side(i))
     \/ \A i \in 1..Len(ring) : LessEq(side(i), Num(0))

\* the convex ring encloses each corner of rectangle
RingEnclosesRectangle(ring, rectangle) ==
  \A i \in 1..Len(rectangle) : InsideRing(ring, rectangle[i])

\* both sides of size are whole numbers
IsIntegerSize(size) == size[1][2] = 1 /\ size[2][2] = 1

\* the held Viewport was made by fromSizeAndPolygon or fromSizeAndMaps with
\* this fit, at the default zoom of 1
FittedWith(fit) ==
  /\ viewport # NoViewport
  /\ viewportArgs.fit = fit
  /\ viewportArgs.zoom = Num(1)

\* C13 as the specification states it: with 'contain' the Viewport's
\* projectedGeoRectangle encloses P, with 'cover' P encloses the rectangle,
\* and at rotation zero projectedGeoCenter is the centre of P's bounding box,
\* for every size and polygon.
C13_FitAsStated ==
  LET ring == viewportArgs.polygon[1]
  IN /\ FittedWith("contain") => RectangleEncloses(viewport.projectedGeoRectangle, ring)
     /\ FittedWith("cover") => RingEnclosesRectangle(ring, viewport.projectedGeoRectangle)
     /\ (FittedWith("contain") \/ FittedWith("cover")) /\ viewport.rotation = 0
          => viewport.projectedGeoCenter = bboxToCenter(computeBbox(ring))

\* C13: for a size of whole numbers, with 'contain' the Viewport's
\* projectedGeoRectangle encloses P, with 'cover' the bounding box of P
\* encloses the rectangle; for every size, at rotation zero projectedGeoCenter
\* is the centre of P's bounding box.
C13_ViewportFit ==
  LET ring == viewportArgs.polygon[1]
  IN /\ FittedWith("contain") /\ IsIntegerSize(viewportArgs.size)
          => RectangleEncloses(viewport.projectedGeoRectangle, ring)
     /\ FittedWith("cover") /\ IsIntegerSize(viewportArgs.size)
          => \A i \in 1..4 : InBbox(computeBbox(ring), viewport.projectedGeoRectangle[i])
     /\ (FittedWith("contain") \/ FittedWith("cover")) /\ viewport.rotation = 0
          => viewport.projectedGeoCenter = bboxToCenter(computeBbox(ring))

\* a triangle covered by a viewport of whole-number size: the rectangle lies
\* in the triangle's bounding box and has a corner outside the triangle
C13_Witness ==
  /\ FittedWith("cover")
  /\ IsIntegerSize(viewportArgs.size)
  /\ Len(viewportArgs.polygon[1]) = 3
  /\ ~RingEnclosesRectangle(viewportArgs.polygon[1], viewport.projectedGeoRectangle)

\* the size of the bounding box of the ring the held Viewport was fitted to,
\* in the frame of the viewport
FittedBboxSize ==
  bboxToSize(computeBbox(rotatePoints(viewportArgs.polygon[1], 4 - viewportArgs.rotation)))

\* the call of the example: fromSizeAndPolygon([200, 100], square (0,0)-(100,100),
\* 'contain', 0)
IsExampleFit ==
  /\ FittedWith("contain")
  /\ viewportArgs.size = <<Num(200), Num(100)>>
  /\ viewportArgs.polygon = << <<Pt(0, 0), Pt(100, 0), Pt(100, 100), Pt(0, 100)>> >>
  /\ viewportArgs.rotation = 0

\* C14: a Viewport made from a size has projectedGeoPerViewportScale equal to
\* zoom times the larger of the two ratios of the polygon's bounding box to the
\* viewport size for 'contain', the smaller for 'cover'; at zoom 1 and a size
\* of whole numbers the viewport's projectedGeoSize then equals the bounding
\* box in width or in height; and the example call gives center (50, 50) and
\* scale 1.
C14_TightFit ==
  /\ viewport # NoViewport /\ viewportArgs.fit \in Fits =>
       LET widthRatio == Over(FittedBboxSize[1], viewportArgs.size[1])
           heightRatio == Over(FittedBboxSize[2], viewportArgs.size[2])
           larger == IF LessEq(widthRatio, heightRatio) THEN heightRatio ELSE widthRatio
           smaller == IF LessEq(widthRatio, heightRatio) THEN widthRatio ELSE heightRatio
       IN /\ viewportArgs.fit = "contain" =>
               viewport.projectedGeoPerViewportScale = Times(viewportArgs.zoom, larger)
          /\ viewportArgs.fit = "cover" =>
               viewport.projectedGeoPerViewportScale = Times(viewportArgs.zoom, smaller)
          /\ viewportArgs.zoom = Num(1) /\ IsIntegerSize(viewportArgs.size) =>
               \/ viewport.projectedGeoSize[1] = FittedBboxSize[1]
               \/ viewport.projectedGeoSize[2] = FittedBboxSize[2]
  /\ IsExampleFit =>
       /\ viewport.projectedGeoCenter = Pt(50, 50)
       /\ viewport.projectedGeoPerViewportScale = Num(1)

\* the example call has returned its Viewport
C14_Witness ==
  /\ IsExampleFit
  /\ viewport.viewportSize = <<Num(200), Num(100)>>
  /\ viewport.projectedGeoPerViewportScale = Num(1)

\* the corners of the clip square [-1, 1] x [-1, 1]
ClipCorners == {Pt(0 - 1, 0 - 1), Pt(1, 0 - 1), Pt(1, 1), Pt(0 - 1, 1)}

\* the images of the four corners of rectangle under transform
CornerImages(transform, rectangle) ==
  {applyTransform(transform, rectangle[i]) : i \in 1..4}

\* C15: projectedGeoToClipTransform takes the four corners of the
\* projectedGeoRectangle onto the four corners of the clip square and
\* projectedGeoCenter to (0, 0); viewportToClipTransform takes the viewport
\* rectangle onto the same square with y negated: left to -1, right to 1, top
\* (y = 0) to 1 and bottom to -1, so viewport (0, 0) goes to (-1, 1).
C15_ClipTransforms ==
  viewport # NoViewport =>
    /\ CornerImages(viewport.projectedGeoToClipTransform, viewport.projectedGeoRectangle)
         = ClipCorners
    /\ applyTransform(viewport.projectedGeoToClipTransform, viewport.projectedGeoCenter)
         = Pt(0, 0)
    /\ CornerImages(viewport.viewportToClipTransform, viewport.viewportRectangle)
         = ClipCorners
    /\ \A i \in 1..4 :
         LET corner == viewport.viewportRectangle[i]
         IN applyTransform(viewport.viewportToClipTransform, corner)
              = <<IF corner[1] = Num(0) THEN Num(0 - 1) ELSE Num(1),
                  IF corner[2] = Num(0) THEN Num(1) ELSE Num(0 - 1)>>
    /\ applyTransform(viewport.viewportToClipTransform, Pt(0, 0)) = Pt(0 - 1, 1)

\* a rotated Viewport that is wider than high, whose viewport rectangle has
\* the corner (0, 0)
C15_Witness ==
  /\ viewport # NoViewport
  /\ viewport.rotation = 3
  /\ viewport.viewportSize[1] # viewport.viewportSize[2]
  /\ Pt(0, 0) \in {viewport.viewportRectangle[i] : i \in 1..4}

\* C16: the viewportSize a Viewport stores is a pair of whole numbers,
\* canvasSize is viewportSize times devicePixelRatio, canvasCenter is
\* viewportCenter times devicePixelRatio, and projectedGeoToCanvasTransform
\* takes every point to devicePixelRatio times its image under
\* projectedGeoToViewportTransform.
C16_CanvasIsViewportTimesDpr ==
  viewport # NoViewport =>
    LET dpr == viewport.devicePixelRatio
    IN /\ IsIntegerSize(viewport.viewportSize)
       /\ viewport.canvasSize = <<Times(viewport.viewportSize[1], dpr),
                                  Times(viewport.viewportSize[2], dpr)>>
       /\ viewport.canvasCenter = <<Times(viewport.viewportCenter[1], dpr),
                                    Times(viewport.viewportCenter[2], dpr)>>
       /\ \A point \in SamplePoints :
            LET inViewport == applyTransform(viewport.projectedGeoToViewportTransform, point)
            IN applyTransform(viewport.projectedGeoToCanvasTransform, point)
                 = <<Times(dpr, inViewport[1]), Times(dpr, inViewport[2])>>

\* a Viewport made from a size with a fraction, at a devicePixelRatio of 3/2
C16_Witness ==
  /\ viewport # NoViewport
  /\ viewportArgs.fit \in Fits
  /\ ~IsIntegerSize(viewportArgs.size)
  /\ viewport.devicePixelRatio = Frac(3, 2)

\* a factory is called without maps (the list has no convex hull) or with a
\* polygon without points
CalledWithEmptyInput ==
  \/ \E size \in ViewportSizes, polygon \in EmptyPolygons, fit \in Fits, q \in Rotations,
        dpr \in DevicePixelRatios, zoom \in Zooms :
       FromSizeAndPolygon(size, polygon, fit, q, dpr, zoom)
  \/ \E polygon \in EmptyPolygons, scale \in Scales, q \in Rotations,
        dpr \in DevicePixelRatios, zoom \in Zooms :
       FromScaleAndPolygon(polygon, scale, q, dpr, zoom)
  \/ \E size \in ViewportSizes, fit \in Fits, q \in Rotations,
        dpr \in DevicePixelRatios, zoom \in Zooms :
       FromSizeAndMaps(size, NoHull, fit, q, dpr, zoom)
  \/ \E scale \in Scales, q \in Rotations, dpr \in DevicePixelRatios, zoom \in Zooms :
       FromScaleAndMaps(scale, NoHull, q, dpr, zoom)

\* C17: each of the four factories, called without maps or with a polygon
\* without points, fails with the error made for empty input and returns no
\* Viewport to its caller.
C17_EmptyInputFails ==
  [][ CalledWithEmptyInput =>
        factoryResult' = "noConvexHullError" /\ viewport' = viewport ]_vars

(***************************************************************************)
(* Claims about tile selection                                             *)
(***************************************************************************)
\* the points of the image, borders included, with whole-number coordinates
ImagePoints == {Pt(x, y) : x \in 0..image.width, y \in 0..image.height}

\* the tiles of the level chosen
TilesAtLevel == TilesAt(image, tileZoomLevel)

\* point lies in the resource region of some enumerated tile
IsCovered(point) ==
  \E tile \in fetchableTiles : InBbox(computeBboxTile(image, tileZoomLevel, tile), point)

\* C18: after tile selection, every point of the image that lies in
\* resourceBufferedViewportRing, and every point of the image in the ring's
\* bbox, lies in the resource region of an enumerated tile, and no tile of
\* the chosen level whose region overlaps the ring's bbox is left out.
C18_TileSelectionCoverage ==
  tileZoomLevel # NoLevel =>
    /\ \A point \in ImagePoints :
         \/ InsideRing(resourceBufferedViewportRing, point)
         \/ InBbox(computeBbox(resourceBufferedViewportRing), point)
         => IsCovered(point)
    /\ \A tile \in TilesAtLevel :
         isOverlapping(computeBboxTile(image, tileZoomLevel, tile),
                       computeBbox(resourceBufferedViewportRing))
           => tile \in fetchableTiles
    /\ fetchableTiles \subseteq TilesAtLevel

\* a ring across several tiles and partly outside the image: some tiles of the
\* level are enumerated and some are not
C18_Witness ==
  /\ tileZoomLevel # NoLevel
  /\ Cardinality(fetchableTiles) >= 2
  /\ fetchableTiles # TilesAtLevel
  /\ \E i \in 1..Len(resourceBufferedViewportRing) :
       ~InBbox(<<Num(0), Num(0), Num(image.width), Num(image.height)>>,
               resourceBufferedViewportRing[i])

\* C19: zoom-level selection picks, among the image's levels, the one whose
\* scaleFactor is the largest that is at most resourcePerViewportPixel; when
\* every level is coarser than that it picks the level of the highest
\* resolution; and it fails with NoZoomLevelError when the image has no level.
C19_ZoomLevelSelection ==
  image # NoImage /\ resourceBufferedViewportRing # <<>> =>
    LET atMost == {sf \in image.scaleFactors : LessEq(Num(sf), resourcePerViewportPixel)}
    IN /\ image.scaleFactors = {} <=> selectionError = "NoZoomLevelError"
       /\ image.scaleFactors = {} => tileZoomLevel = NoLevel /\ fetchableTiles = {}
       /\ atMost # {} =>
            /\ tileZoomLevel \in atMost
            /\ \A sf \in atMost : sf <= tileZoomLevel
       /\ image.scaleFactors # {} /\ atMost = {} =>
            /\ tileZoomLevel \in image.scaleFactors
            /\ \A sf \in image.scaleFactors : tileZoomLevel <= sf

\* a level strictly between two others was chosen, with no exact match
C19_Witness ==
  /\ image # NoImage
  /\ tileZoomLevel = 2
  /\ resourcePerViewportPixel = Num(3)
  /\ image.scaleFactors = {1, 2, 4}

(***************************************************************************)
(* Claims about rendering                                                  *)
(***************************************************************************)
\* the orders in which the tiles of a sequence can have been fetched
OrdersOf(tiles) ==
  { order \in [1..Len(tiles) -> {tiles[i] : i \in 1..Len(tiles)}] :
      \A i, j \in 1..Len(tiles) : order[i] = order[j] => i = j }

C30_ResolvedWithImageData ==
  \A t \in TileIds :
    (resolved[t] /\ ~aborted[t] /\ failure[t] = "none" /\ pc[t] \in {"worker", "done"})
      => (data[t] /\ tileFetched[t] >= 1)

(***************************************************************************)
(* Claims about the textures of a WebGL2WarpedMap                          *)
(***************************************************************************)

\* C27: once the throttle has served every call of
\* add/removeCachedTileAndUpdateTextures (no call is waiting for the trailing
\* edge), the packed textures hold exactly the tiles of CachedTilesByTileUrl
\* and the last texture update has dispatched TEXTURESUPDATED.
C27_TexturesFollowCache ==
  (invocations > 0 /\ ~lastArgs)
    => (packedTiles = CachedTilesByTileUrl /\ texturesUpdated)

\* a step in which updateTextures runs past its early return and writes to
\* the four textures (texImage2D, texSubImage2D on each of them)
WritesTextures ==
  /\ invocations' = invocations + 1
  /\ ~UpdateTexturesReturnsEarly(CachedTilesByTileUrl')

\* a step that is the trailing invocation of a call made earlier
TrailingInvocation == lastArgs /\ timerId # Undefined /\ timerId' = Undefined

\* C23: dispose() deletes the vertex array and the four textures, and once
\* they are deleted no texture update writes to them, the trailing throttled
\* updateTextures of an earlier call included.
C23_NoUpdateAfterDispose ==
  [][/\ Dispose => glObjects' = {}
     /\ (glObjects = {} /\ TrailingInvocation) => ~WritesTextures]_vars

(***************************************************************************)
(* Claims about the Viewport made from a scale                             *)
(***************************************************************************)

\* the held Viewport was made by fromScaleAndPolygon or fromScaleAndMaps
MadeFromScale == viewport # NoViewport /\ viewportArgs.fit = "none"

\* C24: the Viewport made by fromScaleAndPolygon or fromScaleAndMaps encloses
\* the whole polygon in its projectedGeoRectangle, and its
\* projectedGeoPerViewportScale is the scale given times the zoom.
C24_ScaleViewportEncompasses ==
  MadeFromScale =>
    /\ RectangleEncloses(viewport.projectedGeoRectangle, viewportArgs.polygon[1])
    /\ viewport.projectedGeoPerViewportScale = Times(viewportArgs.scale, viewportArgs.zoom)

\* the four textures hold one entry for each of the tiles packed, in one
\* order: the entry of a tile has the position its bitmap was written at, the
\* region of its imageRequest, when it has one, and its scaleFactor
TexturesAgree(textures, packed) ==
  LET count == Len(packed)
      tileAt(k) == textures.packedTilesTexture[k].imageBitmap
  IN /\ Len(textures.packedTilesTexture) = count
     /\ Len(textures.packedTilesPositions) = count
     /\ Len(textures.packedTilesResourcePositionsAndDimensions) = count
     /\ Len(textures.packedTilesScaleFactors) = count
     /\ {tileAt(k) : k \in 1..count} = {packed[i] : i \in 1..count}
     /\ \A k \in 1..count :
          /\ textures.packedTilesPositions[k]
               = <<textures.packedTilesTexture[k].x, textures.packedTilesTexture[k].y>>
          /\ textures.packedTilesScaleFactors[k] = tileAt(k)[3]
          /\ ImageRequestRegion(tileAt(k)) # NoRegion
               => textures.packedTilesResourcePositionsAndDimensions[k] = TileRegion(tileAt(k))

\* C26: after every texture update the packed tiles texture and the three
\* auxiliary textures hold exactly one entry per packed tile, in the same
\* order, each with the tile's position in the atlas, its region and its
\* scaleFactor, also when a cached tile has no imageRequest region.
C26_TexturesAgree == TexturesAgree(atlas, packedFrom)

(***************************************************************************)
(* Claims about the tile server                                            *)
(***************************************************************************)

\* a whole number above zero
IsPositiveInteger(number) == number # NaN /\ number[2] = 1 /\ number[1] > 0

\* C25: createWarpedTileResponse called with a tile coordinate that is not a
\* positive integer has thrown 'x, y and z must be positive integers', and
\* has created no renderer and added no map.
C25_TileCoordinatesChecked ==
  (/\ responsePc # "idle"
   /\ \E c \in {xyzTile.x, xyzTile.y, xyzTile.z} : ~IsPositiveInteger(c))
    => /\ responsePc = "thrown"
       /\ responseError = "x, y and z must be positive integers"
       /\ ~rendererCreated
       /\ mapsAdded = 0

(***************************************************************************)
(* Claims about the IIIF parser                                            *)
(***************************************************************************)

\* the entries of the profile array of the image parsed
ProfileEntriesParsed == {parsedImage.profile[k] : k \in 1..Len(parsedImage.profile)}

\* a list of features holds regionByPx and sizeByWh
HasBothFeatures(list) == list # NoValue /\ {"regionByPx", "sizeByWh"} \subseteq list[1]

\* given is the greatest of the values the descriptions give for a property,
\* undefined when none gives one
IsMaximumOf(given, values) ==
  IF values \subseteq {NoValue} THEN given = NoValue
  ELSE /\ given \in values \ {NoValue}
       /\ \A value \in values \ {NoValue} : LessEq(value[1], given[1])

\* C29: getProfileProperties of an Image API 3 image ('id') gives
\* supportsAnyRegionAndSize false exactly for profile 'level0' whose
\* extraFeatures lack regionByPx or sizeByWh; of an Image API 2 image ('@id')
\* it throws 'Unsupported IIIF Image Profile' when a profile URI is unknown,
\* and else gives supportsAnyRegionAndSize true iff some profile entry is a
\* URI of level 1 or 2 or a description supporting both features, and
\* maxWidth, maxHeight and maxArea as the maximum over the descriptions,
\* undefined when none gives one; of an image with neither key it throws
\* 'Invalid Image'.
C29_ProfileProperties ==
  /\ parsedImage.key = "id" =>
       /\ profileProperties.error = ""
       /\ profileProperties.supportsAnyRegionAndSize
            = ~(parsedImage.profile = "level0" /\ ~HasBothFeatures(parsedImage.extraFeatures))
  /\ parsedImage.key = "@id" =>
       IF \E entry \in ProfileEntriesParsed : entry.uri = OtherUri
       THEN profileProperties.error = "Unsupported IIIF Image Profile"
       ELSE /\ profileProperties.error = ""
            /\ profileProperties.supportsAnyRegionAndSize
                 = \E entry \in ProfileEntriesParsed :
                     \/ entry.uri \in {Level1Uri, Level2Uri}
                     \/ entry.uri = "" /\ HasBothFeatures(entry.supports)
            /\ IsMaximumOf(profileProperties.maxWidth,
                           {entry.maxWidth : entry \in ProfileEntriesParsed})
            /\ IsMaximumOf(profileProperties.maxHeight,
                           {entry.maxHeight : entry \in ProfileEntriesParsed})
            /\ IsMaximumOf(profileProperties.maxArea,
                           {entry.maxArea : entry \in ProfileEntriesParsed})
  /\ parsedImage.key = "none" => profileProperties.error = "Invalid Image"

\* an Image API 2 image whose profile has two descriptions, the first with
\* one feature and a maxWidth, the second with both features and a greater
\* maxWidth
C29_Witness ==
  /\ parsedImage.key = "@id"
  /\ Len(parsedImage.profile) = 2
  /\ parsedImage.profile[1].supports = <<{"regionByPx"}>>
  /\ parsedImage.profile[1].maxWidth = <<Num(100)>>
  /\ HasBothFeatures(parsedImage.profile[2].supports)
  /\ parsedImage.profile[2].maxWidth = <<Num(200)>>
  /\ profileProperties.error = ""
  /\ profileProperties.supportsAnyRegionAndSize
  /\ profileProperties.maxWidth = <<Num(200)>>
  /\ profileProperties.maxHeight = <<Num(200)>>
  /\ profileProperties.maxArea = <<Num(0)>>

(***************************************************************************)
(* Claims about the transformer and the transform helper functions         *)
(***************************************************************************)

\* the tolerance of a round trip, in resource pixels
Tolerance == Frac(1, 100)

\* the distance of two numbers
Distance(a, b) == IF LessEq(a, b) THEN Minus(b, a) ELSE Minus(a, b)

\* C21: for a point p inside the mask, backward(forward(p)) is p within the
\* tolerance, for the polynomial (affine) kind.
C21_TransformerRoundTrip ==
  transformCall.name = "roundTrip" =>
    /\ LessEq(Distance(transformResult[1], transformCall.point[1]), Tolerance)
    /\ LessEq(Distance(transformResult[2], transformCall.point[2]), Tolerance)

\* C28: transformRectangleBackwardToRectangles returns the rectangle refined
\* with transformBackward and the backward refinement options.
C28_RectangleBackward ==
  transformCall.name = "transformRectangleBackwardToRectangles" =>
    transformResult
      = refineRectangleToRectangles(
          transformer, transformCall.geometry, "transformBackward",
          refinementOptionsFromBackwardTransformOptions(transformCall.transformOptions))

(***************************************************************************)
(* Claims about the transformation transition                              *)
(***************************************************************************)

\* TRUE of a step that handles a change of the triangulation
TriangulationChanged == triangulationChanges' # triangulationChanges

\* the interpolation of the previous and new points at t, in clip coordinates
Interpolation(previous, new, t) ==
  [i \in 1..Len(new) |->
     LET p == applyTransform(ProjectedGeoToClip, previous[i])
         n == applyTransform(ProjectedGeoToClip, new[i])
     IN <<Plus(Times(Minus(Num(1), t), p[1]), Times(t, n[1])), Plus(Times(Minus(Num(1), t), p[2]), Times(t, n[2]))>>]

\* a change starts a transition at t = 0
ChangeStartsTransition == TriangulationChanged => animating' /\ animationProgress' = Num(0)

\* a transformation change starts a transition at t = 0
TransformationChangeStartsTransition == lastChange' = "transformation" /\ TriangulationChanged => animating' /\ animationProgress' = Num(0)

\* between changes t only grows, and it stays within [0, 1]
ProgressOnlyGrows ==
  /\ LessEq(Num(0), animationProgress') /\ LessEq(animationProgress', Num(1))
  /\ ~TriangulationChanged => LessEq(animationProgress, animationProgress')

\* a frame draws the interpolation of the previous and new points at t
FrameDrawsInterpolation ==
  framesDrawn' # framesDrawn =>
    drawnTrianglePoints' = Interpolation(projectedGeoPreviousTrianglePoints', projectedGeoTrianglePoints', animationProgress')

\* outside a transition the previous points are the new points, and a
\* transition that has reached t = 1 is over
PreviousClearedAtOne ==
  /\ ~animating' => projectedGeoPreviousTrianglePoints' = projectedGeoTrianglePoints'
  /\ animationProgress' = Num(1) => ~animating'

\* C22: after a transformation-kind, GCP or resource-mask change a transition
\* starts at t = 0, t only grows up to 1 during it, every frame draws the
\* interpolation of the previous and new triangle points at t, and once t has
\* reached 1 the previous points equal the new ones until the next change
C22_CrossFade == [][ChangeStartsTransition /\ ProgressOnlyGrows /\ FrameDrawsInterpolation /\ PreviousClearedAtOne]_vars

\* the same but for the start of the transition, asked of transformation
\* changes only
CrossFadeOfTransformationChanges == [][TransformationChangeStartsTransition /\ ProgressOnlyGrows /\ FrameDrawsInterpolation /\ PreviousClearedAtOne]_vars

\* a frame drawn half way through a transition between differing points
CrossFadeHalfWay ==
  /\ animating /\ animationProgress = Frac(1, 2) /\ drawnTrianglePoints # <<>>
  /\ projectedGeoPreviousTrianglePoints # projectedGeoTrianglePoints

\* a resource mask change handled while no transition runs
ResourceMaskChangedAtRest == lastChange = "resourceMask" /\ ~animating

====
